---- MODULE Spec2Model ----
(***************************************************************************)
(* Limit-order paper-trading engine of src/lib/tools/paper-trading.ts      *)
(* (the second engine of that file, lines 213-585: placeLimitOrder,        *)
(* cancelOrder, checkAndFillOrders, updatePositions, resetPortfolio) for   *)
(* one user.                                                               *)
(*                                                                         *)
(* Units.  Every amount of money the engine stores goes through            *)
(* parseFloat(x.toFixed(2)), so it is a decimal with two fractional        *)
(* digits: the model keeps it as an integer number of cents and toFixed    *)
(* rounds the exact quotient to the nearest unit, half away from zero.     *)
(* The binary rounding noise of IEEE doubles (of the order of 1e-13) is    *)
(* not modelled.  Prices are positive integers.  riskPercent is kept in    *)
(* hundredths of a percent (10% is 1000), pnlPercent and totalPnlPercent   *)
(* in hundredths of a percent, winRate in tenths of a percent.  Time is    *)
(* in hours.  quantity = size / limitPrice is kept as the exact fraction   *)
(* [num, den].                                                             *)
(*                                                                         *)
(* Fields the engine only stores and never reads are left out of the       *)
(* records: coin, reason, confidence, filledAt, openTime, closeTime and    *)
(* the time of a pnlHistory sample.  Order ids (LO-<ms>-<random>) are      *)
(* modelled as a counter, position ids (POS-<ms>-<random>) as the id of    *)
(* the order the position comes from.                                      *)
(***************************************************************************)
EXTENDS Integers, Sequences, FiniteSets, TLC

VARIABLES
    portfolio,      \* portfolios.get(userId): the user's Portfolio object
    now,            \* the wall clock (new Date()), in hours
    nextOrderId,    \* the next fresh order id
    result,         \* what the last call returned
    calls,          \* how many engine calls have been made
    bots,           \* the manager's map from userId to the user's worker
    workers,        \* the workers created so far
    cron            \* the cron request in progress, if any

vars == <<portfolio, now, nextOrderId, result, calls, bots, workers, cron>>

----------------------------------------------------------------------------
(* Program constants *)

INITIAL_BALANCE == 1000
EXPIRY_HOURS == 72
MAX_PENDING_ORDERS == 5
MAX_POSITIONS == 3
MIN_SIZE == 5
MAX_CLOSED_TRADES == 100
MAX_PNL_HISTORY == 500

(* Bounds of the exploration *)

MaxCalls == 4       \* engine calls in one behaviour
MaxTime == 72       \* the clock stops here
MaxCapCalls == 6    \* engine calls in one behaviour of SpecCap


----------------------------------------------------------------------------
(* Arithmetic helpers *)

NoId == 0           \* no order id

Dollars(d) == d * 100

Max(a, b) == IF a >= b THEN a ELSE b

\* parseFloat((n / d).toFixed(0)) for d > 0: the nearest integer to n / d,
\* a tie going away from zero.  With the amounts in cents this is the
\* engine's x.toFixed(2).
toFixed(n, d) ==
    IF n >= 0 THEN (2 * n + d) \div (2 * d)
              ELSE -((2 * (-n) + d) \div (2 * d))

\* toFixed(a * b, d) for b >= 0, computed without leaving 32 bits: a * b / d
\* is (a div d) * b, an integer, plus (a mod d) * b / d.
toFixedMul(a, b, d) ==
    LET m == IF a >= 0 THEN a ELSE -a
        v == (m \div d) * b + toFixed((m % d) * b, d)
    IN  IF a >= 0 THEN v ELSE -v

RECURSIVE SumSize(_)
SumSize(s) == IF s = <<>> THEN 0 ELSE Head(s).size + SumSize(Tail(s))

RECURSIVE SelectIds(_)
SelectIds(s) == IF s = <<>> THEN <<>> ELSE <<Head(s).id>> \o SelectIds(Tail(s))

CoinIds(s) == {s[i].coinId : i \in 1..Len(s)}

----------------------------------------------------------------------------
(* getPortfolio / resetPortfolio *)

\* The object getPortfolio creates on first access.
getPortfolio ==
    [ balance         |-> Dollars(INITIAL_BALANCE),
      reservedBalance |-> 0,
      initialBalance  |-> Dollars(INITIAL_BALANCE),
      totalPnl        |-> 0,
      totalPnlPercent |-> 0,
      positions       |-> <<>>,
      pendingOrders   |-> <<>>,
      closedTrades    |-> <<>>,
      cancelledOrders |-> <<>>,
      winRate         |-> 0,
      totalTrades     |-> 0,
      wins            |-> 0,
      losses          |-> 0,
      pnlHistory      |-> << [value |-> Dollars(INITIAL_BALANCE)] >> ]

NoResult ==
    [ op |-> "none", success |-> TRUE, message |-> "", orderId |-> NoId,
      filled |-> <<>>, expired |-> <<>>, closed |-> <<>>, updated |-> <<>> ]

Result(op, success, message, orderId) ==
    [NoResult EXCEPT !.op = op, !.success = success, !.message = message,
                     !.orderId = orderId]

----------------------------------------------------------------------------
(* placeLimitOrder *)

\* The size cut to the cent below instead of rounded to the nearest.
orderSizeTruncated(balance, riskPercent) == (balance * riskPercent) \div 10000

\* size = parseFloat((portfolio.balance * (riskPercent / 100)).toFixed(2))
orderSize(balance, riskPercent) == toFixedMul(balance, riskPercent, 10000)

\* portfolio.reservedBalance + size, rounded (a sum of cents is exact)
reserve(reservedBalance, size) == reservedBalance + size

\* A release that is forgotten: the reservation stays.
releaseForgotten(reservedBalance, size) == reservedBalance

\* Math.max(0, portfolio.reservedBalance - order.size), rounded
release(reservedBalance, size) == Max(0, reservedBalance - size)

hasPendingOrder(p, coinId) == \E i \in 1..Len(p.pendingOrders) : p.pendingOrders[i].coinId = coinId

\* if (portfolio.pendingOrders.length >= 5)
pendingFullOffByOne(p) == Len(p.pendingOrders) > MAX_PENDING_ORDERS

pendingFull(p) == Len(p.pendingOrders) >= MAX_PENDING_ORDERS

\* The open positions are not looked at.
hasPositionUnchecked(p, coinId) == FALSE

hasPosition(p, coinId) == \E i \in 1..Len(p.positions) : p.positions[i].coinId = coinId

positionTypeOf(orderType) == IF orderType = "BUY_LIMIT" THEN "LONG" ELSE "SHORT"

\* The validation chain of placeLimitOrder, in the order of the code: the
\* first check that fails names the rejection, "OK" when none does.
placeLimitOrderCheck(p, coinId, orderType, currentPrice, limitPrice, tp1, sl, riskPercent) ==
    LET size == orderSize(p.balance, riskPercent)
        availableBalance == p.balance - p.reservedBalance
    IN  IF pendingFull(p) THEN "MAX_PENDING"
        ELSE IF hasPendingOrder(p, coinId) THEN "HAS_ORDER"
        ELSE IF hasPosition(p, coinId) THEN "HAS_POSITION"
        ELSE IF orderType = "BUY_LIMIT" /\ limitPrice >= currentPrice THEN "BUY_NOT_BELOW"
        ELSE IF orderType = "SELL_LIMIT" /\ limitPrice <= currentPrice THEN "SELL_NOT_ABOVE"
        ELSE IF positionTypeOf(orderType) = "LONG" /\ sl >= limitPrice THEN "SL_LONG"
        ELSE IF positionTypeOf(orderType) = "LONG" /\ tp1 <= limitPrice THEN "TP_LONG"
        ELSE IF positionTypeOf(orderType) = "SHORT" /\ sl <= limitPrice THEN "SL_SHORT"
        ELSE IF positionTypeOf(orderType) = "SHORT" /\ tp1 >= limitPrice THEN "TP_SHORT"
        ELSE IF size < Dollars(MIN_SIZE) THEN "SIZE_MIN"
        ELSE IF size > availableBalance THEN "INSUFFICIENT"
        ELSE "OK"

newOrder(id, coinId, orderType, currentPrice, limitPrice, tp1, tp2, tp3, sl, size, riskPercent, t) ==
    [ id           |-> id,
      coinId       |-> coinId,
      orderType    |-> orderType,
      positionType |-> positionTypeOf(orderType),
      limitPrice   |-> limitPrice,
      currentPrice |-> currentPrice,
      tp1 |-> tp1, tp2 |-> tp2, tp3 |-> tp3, sl |-> sl,
      size         |-> size,
      riskPercent  |-> riskPercent,
      status       |-> "PENDING",
      createdAt    |-> t,
      expiresAt    |-> t + EXPIRY_HOURS ]

\* The size is taken out of balance instead of being reserved.
placeAcceptedDebits(p, order) ==
    [p EXCEPT !.balance = @ - order.size,
              !.pendingOrders = Append(p.pendingOrders, order)]

\* The portfolio after an accepted order: the reservation, then the push.
placeAccepted(p, order) ==
    [p EXCEPT !.reservedBalance = reserve(p.reservedBalance, order.size),
              !.pendingOrders = Append(p.pendingOrders, order)]

\* The reservation is made before the checks of the size.
placeRejectedReserves(p, order) ==
    [p EXCEPT !.reservedBalance = reserve(p.reservedBalance, order.size)]

\* The portfolio after a rejected order: every rejection returns before
\* the first assignment.
placeRejected(p, order) == p

placeLimitOrder(coinId, orderType, currentPrice, limitPrice, tp1, tp2, tp3, sl, riskPercent) ==
    LET check == placeLimitOrderCheck(portfolio, coinId, orderType, currentPrice,
                                      limitPrice, tp1, sl, riskPercent)
        order == newOrder(nextOrderId, coinId, orderType, currentPrice, limitPrice,
                          tp1, tp2, tp3, sl,
                          orderSize(portfolio.balance, riskPercent), riskPercent, now)
    IN  /\ IF check = "OK"
           THEN /\ portfolio' = placeAccepted(portfolio, order)
                /\ nextOrderId' = nextOrderId + 1
                /\ result' = Result("placeLimitOrder", TRUE, check, order.id)
           ELSE /\ portfolio' = placeRejected(portfolio, order)
                /\ nextOrderId' = nextOrderId
                /\ result' = Result("placeLimitOrder", FALSE, check, NoId)
        /\ UNCHANGED now

----------------------------------------------------------------------------
(* cancelOrder *)

\* portfolio.pendingOrders.findIndex((o) => o.id === orderId), 0 for -1
findIndex(orders, orderId) ==
    IF \E i \in 1..Len(orders) : orders[i].id = orderId
    THEN CHOOSE i \in 1..Len(orders) :
            /\ orders[i].id = orderId
            /\ \A j \in 1..(i - 1) : orders[j].id # orderId
    ELSE 0

\* pendingOrders.splice(idx): without the count, everything from idx on goes.
spliceToEnd(s, idx) == SubSeq(s, 1, idx - 1)

\* pendingOrders.splice(idx, 1)
splice(s, idx) == SubSeq(s, 1, idx - 1) \o SubSeq(s, idx + 1, Len(s))

\* cancelledOrders.unshift(order)
unshift(s, e) == <<e>> \o s

\* Without order.status = "CANCELLED": the order is moved as it is.
cancelFoundKeepsStatus(p, idx) ==
    LET order == p.pendingOrders[idx]
    IN  [p EXCEPT !.reservedBalance = release(p.reservedBalance, order.size),
                  !.cancelledOrders = unshift(p.cancelledOrders, order),
                  !.pendingOrders = splice(p.pendingOrders, idx)]

cancelFound(p, idx) ==
    LET order == [p.pendingOrders[idx] EXCEPT !.status = "CANCELLED"]
    IN  [p EXCEPT !.reservedBalance = release(p.reservedBalance, order.size),
                  !.cancelledOrders = unshift(p.cancelledOrders, order),
                  !.pendingOrders = splice(p.pendingOrders, idx)]

\* Without the return on idx === -1, splice(-1, 1) takes the last order out.
cancelNotFoundSplicesLast(p, orderId) ==
    [p EXCEPT !.pendingOrders = SubSeq(@, 1, Len(@) - 1)]

\* if (idx === -1) return: nothing is assigned.
cancelNotFound(p, orderId) == p

cancelOrder(orderId) ==
    LET idx == findIndex(portfolio.pendingOrders, orderId)
    IN  /\ IF idx = 0
           THEN /\ portfolio' = cancelNotFound(portfolio, orderId)
                /\ result' = Result("cancelOrder", FALSE, "NOT_FOUND", orderId)
           ELSE /\ portfolio' = cancelFound(portfolio, idx)
                /\ result' = Result("cancelOrder", TRUE, "CANCELLED", orderId)
        /\ UNCHANGED <<now, nextOrderId>>

----------------------------------------------------------------------------
(* checkAndFillOrders *)

\* priceMap[order.coinId] is undefined when the map has no entry
hasEntry(priceMap, coinId) == coinId \in DOMAIN priceMap

\* if (!currentPrice): no entry, or an entry of 0
noPrice(priceMap, coinId) == ~hasEntry(priceMap, coinId) \/ priceMap[coinId] = 0

isFilled(order, currentPrice) ==
    \/ order.orderType = "BUY_LIMIT" /\ currentPrice <= order.limitPrice
    \/ order.orderType = "SELL_LIMIT" /\ currentPrice >= order.limitPrice

\* if (now > order.expiresAt)
isExpiredStrict(order, t) == t > order.expiresAt

isExpired(order, t) == t >= order.expiresAt

\* if (isFilled && portfolio.positions.length <= 3)
hasCapacityOffByOne(positions) == Len(positions) <= MAX_POSITIONS

hasCapacity(positions) == Len(positions) < MAX_POSITIONS

\* The position is entered at the observed price instead of the limit.
positionOfAtObservedPrice(order, currentPrice) ==
    [ id           |-> order.id,
      coinId       |-> order.coinId,
      type         |-> order.positionType,
      orderType    |-> order.orderType,
      entryPrice   |-> currentPrice,
      currentPrice |-> currentPrice,
      size         |-> order.size,
      quantity     |-> [num |-> order.size, den |-> currentPrice],
      tp1 |-> order.tp1, tp2 |-> order.tp2, tp3 |-> order.tp3, sl |-> order.sl,
      pnl          |-> 0,
      pnlPercent   |-> 0,
      status       |-> "OPEN",
      closeReason  |-> "none",
      fromOrderId  |-> order.id ]

positionOf(order, currentPrice) ==
    [ id           |-> order.id,
      coinId       |-> order.coinId,
      type         |-> order.positionType,
      orderType    |-> order.orderType,
      entryPrice   |-> order.limitPrice,
      currentPrice |-> currentPrice,
      size         |-> order.size,
      quantity     |-> [num |-> order.size, den |-> order.limitPrice],
      tp1 |-> order.tp1, tp2 |-> order.tp2, tp3 |-> order.tp3, sl |-> order.sl,
      pnl          |-> 0,
      pnlPercent   |-> 0,
      status       |-> "OPEN",
      closeReason  |-> "none",
      fromOrderId  |-> order.id ]

\* The expiry is tested before the price is looked up.
fillOneExpiryFirst(st, order, priceMap, t) ==
    IF isExpired(order, t)
    THEN LET o == [order EXCEPT !.status = "EXPIRED"]
         IN  [st EXCEPT !.p.reservedBalance = release(@, o.size),
                        !.p.cancelledOrders = unshift(@, o),
                        !.expired = Append(@, o.id)]
    ELSE IF noPrice(priceMap, order.coinId)
    THEN [st EXCEPT !.remaining = Append(@, order)]
    ELSE IF isFilled(order, priceMap[order.coinId]) /\ hasCapacity(st.p.positions)
    THEN LET o == [order EXCEPT !.status = "FILLED"]
         IN  [st EXCEPT !.p.balance = @ - o.size,
                        !.p.reservedBalance = release(@, o.size),
                        !.p.positions = Append(@, positionOf(o, priceMap[o.coinId])),
                        !.filled = Append(@, o.id)]
    ELSE [st EXCEPT !.remaining = Append(@, order)]

\* The body of the loop for one pending order.  st carries the portfolio p
\* as mutated so far and the local arrays remaining, filled and expired.
\* The fill test before the expiry test: a crossed order with a free slot
\* fills although it has expired.
fillOneFillFirst(st, order, priceMap, t) ==
    IF noPrice(priceMap, order.coinId)
    THEN [st EXCEPT !.remaining = Append(@, order)]
    ELSE IF isFilled(order, priceMap[order.coinId]) /\ hasCapacity(st.p.positions)
    THEN LET o == [order EXCEPT !.status = "FILLED"]
         IN  [st EXCEPT !.p.balance = @ - o.size,
                        !.p.reservedBalance = release(@, o.size),
                        !.p.positions = Append(@, positionOf(o, priceMap[o.coinId])),
                        !.filled = Append(@, o.id)]
    ELSE IF isExpired(order, t)
    THEN LET o == [order EXCEPT !.status = "EXPIRED"]
         IN  [st EXCEPT !.p.reservedBalance = release(@, o.size),
                        !.p.cancelledOrders = unshift(@, o),
                        !.expired = Append(@, o.id)]
    ELSE [st EXCEPT !.remaining = Append(@, order)]

fillOne(st, order, priceMap, t) ==
    IF noPrice(priceMap, order.coinId)
    THEN [st EXCEPT !.remaining = Append(@, order)]
    ELSE IF isExpired(order, t)
    THEN LET o == [order EXCEPT !.status = "EXPIRED"]
         IN  [st EXCEPT !.p.reservedBalance = release(@, o.size),
                        !.p.cancelledOrders = unshift(@, o),
                        !.expired = Append(@, o.id)]
    ELSE IF isFilled(order, priceMap[order.coinId]) /\ hasCapacity(st.p.positions)
    THEN LET o == [order EXCEPT !.status = "FILLED"]
         IN  [st EXCEPT !.p.balance = @ - o.size,
                        !.p.reservedBalance = release(@, o.size),
                        !.p.positions = Append(@, positionOf(o, priceMap[o.coinId])),
                        !.filled = Append(@, o.id)]
    ELSE [st EXCEPT !.remaining = Append(@, order)]

RECURSIVE fillLoop(_, _, _, _)
fillLoop(st, orders, priceMap, t) ==
    IF orders = <<>> THEN st
    ELSE fillLoop(fillOne(st, Head(orders), priceMap, t), Tail(orders), priceMap, t)

\* The whole call: the loop over portfolio.pendingOrders, then
\* portfolio.pendingOrders = remaining.
fillOrders(p, priceMap, t) ==
    LET st == fillLoop([p |-> p, remaining |-> <<>>, filled |-> <<>>, expired |-> <<>>],
                       p.pendingOrders, priceMap, t)
    IN  [st EXCEPT !.p.pendingOrders = st.remaining]

checkAndFillOrders(priceMap) ==
    LET st == fillOrders(portfolio, priceMap, now)
    IN  /\ portfolio' = st.p
        /\ result' = [NoResult EXCEPT !.op = "checkAndFillOrders",
                                      !.filled = st.filled, !.expired = st.expired]
        /\ UNCHANGED <<now, nextOrderId>>

----------------------------------------------------------------------------
(* updatePositions *)

\* priceMap[pos.coinId] ?? pos.currentPrice
markPrice(pos, priceMap) ==
    IF hasEntry(priceMap, pos.coinId) THEN priceMap[pos.coinId] ELSE pos.currentPrice

\* The move is added to the pnl the position already shows.
pnlOfAccumulating(pos, currentPrice) ==
    pos.pnl + (IF pos.type = "LONG"
               THEN toFixed((currentPrice - pos.entryPrice) * pos.quantity.num, pos.quantity.den)
               ELSE toFixed((pos.entryPrice - currentPrice) * pos.quantity.num, pos.quantity.den))

\* parseFloat(((currentPrice - entryPrice) * quantity).toFixed(2)), mirrored
\* for a SHORT
pnlOf(pos, currentPrice) ==
    IF pos.type = "LONG"
    THEN toFixed((currentPrice - pos.entryPrice) * pos.quantity.num, pos.quantity.den)
    ELSE toFixed((pos.entryPrice - currentPrice) * pos.quantity.num, pos.quantity.den)

\* parseFloat(((pnl / size) * 100).toFixed(2)), in hundredths of a percent
pnlPercentOf(pnl, size) == toFixedMul(pnl * 100, 100, size)

\* The take-profit levels tested from the nearest to the farthest.
closeReasonNearestFirst(pos, currentPrice) ==
    IF pos.type = "LONG"
    THEN IF currentPrice <= pos.sl THEN "SL"
         ELSE IF currentPrice >= pos.tp1 THEN "TP1"
         ELSE IF currentPrice >= pos.tp2 THEN "TP2"
         ELSE IF currentPrice >= pos.tp3 THEN "TP3"
         ELSE "none"
    ELSE IF currentPrice >= pos.sl THEN "SL"
         ELSE IF currentPrice <= pos.tp1 THEN "TP1"
         ELSE IF currentPrice <= pos.tp2 THEN "TP2"
         ELSE IF currentPrice <= pos.tp3 THEN "TP3"
         ELSE "none"

closeReasonOf(pos, currentPrice) ==
    IF pos.type = "LONG"
    THEN IF currentPrice <= pos.sl THEN "SL"
         ELSE IF currentPrice >= pos.tp3 THEN "TP3"
         ELSE IF currentPrice >= pos.tp2 THEN "TP2"
         ELSE IF currentPrice >= pos.tp1 THEN "TP1"
         ELSE "none"
    ELSE IF currentPrice >= pos.sl THEN "SL"
         ELSE IF currentPrice <= pos.tp3 THEN "TP3"
         ELSE IF currentPrice <= pos.tp2 THEN "TP2"
         ELSE IF currentPrice <= pos.tp1 THEN "TP1"
         ELSE "none"

\* closedTrades.shift() for pop(): the trade just closed is the one dropped.
pushClosedDropsNewest(closedTrades, pos) ==
    LET s == unshift(closedTrades, pos)
    IN  IF Len(s) > MAX_CLOSED_TRADES THEN Tail(s) ELSE s

\* closedTrades.unshift({...pos}); if (length > 100) closedTrades.pop()
pushClosed(closedTrades, pos) ==
    LET s == unshift(closedTrades, pos)
    IN  IF Len(s) > MAX_CLOSED_TRADES THEN SubSeq(s, 1, Len(s) - 1) ELSE s

\* The size comes back without the profit or loss.
creditSizeOnly(balance, pos) == balance + pos.size

\* balance + size + pnl, rounded
credit(balance, pos) == balance + pos.size + pos.pnl

\* The rate cut to the tenth below instead of rounded to the nearest.
winRateOfTruncated(wins, totalTrades) == (wins * 1000) \div totalTrades

\* parseFloat(((wins / totalTrades) * 100).toFixed(1)), in tenths of a percent
winRateOf(wins, totalTrades) == toFixed(wins * 1000, totalTrades)

\* The body of the loop for one open position.
updateOne(st, pos0, priceMap) ==
    LET currentPrice == markPrice(pos0, priceMap)
        pnl == pnlOf(pos0, currentPrice)
        pos == [pos0 EXCEPT !.currentPrice = currentPrice,
                            !.pnl = pnl,
                            !.pnlPercent = pnlPercentOf(pnl, pos0.size)]
        closeReason == closeReasonOf(pos, currentPrice)
    IN  IF closeReason # "none"
        THEN LET c == [pos EXCEPT !.status = "CLOSED", !.closeReason = closeReason]
                 wins == IF c.pnl > 0 THEN st.p.wins + 1 ELSE st.p.wins
                 losses == IF c.pnl > 0 THEN st.p.losses ELSE st.p.losses + 1
             IN  [st EXCEPT !.p.balance = credit(@, c),
                            !.p.totalPnl = @ + c.pnl,
                            !.p.totalTrades = @ + 1,
                            !.p.wins = wins,
                            !.p.losses = losses,
                            !.p.winRate = winRateOf(wins, st.p.totalTrades + 1),
                            !.p.closedTrades = pushClosed(@, c),
                            !.closed = Append(@, c.id)]
        ELSE [st EXCEPT !.remaining = Append(@, pos),
                        !.updated = Append(@, pos.id)]

RECURSIVE updateLoop(_, _, _)
updateLoop(st, positions, priceMap) ==
    IF positions = <<>> THEN st
    ELSE updateLoop(updateOne(st, Head(positions), priceMap), Tail(positions), priceMap)

RECURSIVE SumValue(_)
SumValue(s) == IF s = <<>> THEN 0 ELSE Head(s).size + Head(s).pnl + SumValue(Tail(s))

\* balance + reservedBalance + openValue, rounded
totalValueOf(p, remaining) == p.balance + p.reservedBalance + SumValue(remaining)

\* parseFloat((((totalValue - initialBalance) / initialBalance) * 100).toFixed(2))
totalPnlPercentOf(totalValue, initialBalance) ==
    toFixedMul((totalValue - initialBalance) * 100, 100, initialBalance)

\* pnlHistory.slice(0, 500): the sample just pushed is the one cut off.
pushSampleDropsNewest(pnlHistory, sample) ==
    LET s == Append(pnlHistory, sample)
    IN  IF Len(s) > MAX_PNL_HISTORY THEN SubSeq(s, 1, MAX_PNL_HISTORY) ELSE s

\* pnlHistory.push(sample); if (length > 500) pnlHistory = pnlHistory.slice(-500)
pushSample(pnlHistory, sample) ==
    LET s == Append(pnlHistory, sample)
    IN  IF Len(s) > MAX_PNL_HISTORY
        THEN SubSeq(s, Len(s) - MAX_PNL_HISTORY + 1, Len(s)) ELSE s

\* The whole call: the loop over portfolio.positions, portfolio.positions =
\* remaining, then the pnlHistory sample.
markPositions(p, priceMap) ==
    LET st == updateLoop([p |-> p, remaining |-> <<>>, closed |-> <<>>, updated |-> <<>>],
                         p.positions, priceMap)
        totalValue == totalValueOf(st.p, st.remaining)
    IN  [st EXCEPT !.p.positions = st.remaining,
                   !.p.totalPnlPercent = totalPnlPercentOf(totalValue, st.p.initialBalance),
                   !.p.pnlHistory = pushSample(@, [value |-> totalValue])]

updatePositions(priceMap) ==
    LET st == markPositions(portfolio, priceMap)
    IN  /\ portfolio' = st.p
        /\ result' = [NoResult EXCEPT !.op = "updatePositions",
                                      !.closed = st.closed, !.updated = st.updated]
        /\ UNCHANGED <<now, nextOrderId>>

----------------------------------------------------------------------------
(* resetPortfolio: portfolios.delete(userId), then getPortfolio(userId) *)

\* Without portfolios.delete(userId), getPortfolio returns the old object.
resetWithoutDelete ==
    /\ portfolio' = portfolio
    /\ result' = [NoResult EXCEPT !.op = "resetPortfolio"]
    /\ UNCHANGED <<now, nextOrderId>>

resetPortfolio ==
    /\ portfolio' = getPortfolio
    /\ result' = [NoResult EXCEPT !.op = "resetPortfolio"]
    /\ UNCHANGED <<now, nextOrderId>>

----------------------------------------------------------------------------
(* The bot manager of src/lib/worker/manager.ts (startBot, stopBot,        *)
(* getBotStatus and the handlers of the worker's events, lines 1-96) and   *)
(* the worker thread it starts (lines 98-425: the in-worker portfolio,     *)
(* updatePositions, runCycle and tick).                                    *)
(*                                                                         *)
(* A worker is one record: the BotState object the manager keeps for it    *)
(* (state), whether the thread is loading, running or stopped (phase),     *)
(* what the thread has sent or caused and the main thread has not yet      *)
(* handled (events, in order), the ticks in flight, each waiting at one    *)
(* of its awaits (ticks), how many ticks it has started (started) and the  *)
(* thread's own portfolios map.  The worker keeps its amounts as           *)
(* unrounded doubles: the model holds them in 1/10000 of a dollar, a       *)
(* quotient being taken to the nearest such unit, and pnlPercent in        *)
(* percent.  The log lines of one cycle are held as one entry.             *)

Users == {"default"}

MaxWorkers == 3     \* workers created in one behaviour
MaxTicks == 2       \* ticks one worker starts

WUnits(d) == d * 10000

\* WATCHLIST of the worker script, and the part of it the workers of
\* SpecBot, SpecWorker and SpecStore scan.
WATCHLIST == <<"bitcoin", "ethereum", "solana", "binancecoin", "ripple">>

BotWatchlist == SubSeq(WATCHLIST, 1, 2)

BotPrices == {100, 110}

\* What the model lets the AI propose at a price of 100.
BotDecision == [type |-> "LONG", tp1 |-> 110, tp2 |-> 120, tp3 |-> 130, sl |-> 90]

\* n / d, to the nearest unit
ratio(n, d) == toFixed(n, d)

\* A Map without the key.
Range(s) == {s[i] : i \in 1..Len(s)}

mapDelete(map, key) == [k \in DOMAIN map \ {key} |-> map[k]]

\* A Map with the key set.
mapSet(map, key, value) == [k \in DOMAIN map \cup {key} |-> IF k = key THEN value ELSE map[k]]

NoMap == [k \in {} |-> 0]

(* The worker thread *)

\* getPortfolio of the worker: portfolios.set(userId, {...}) on first use
workerGetPortfolio(portfolios, userId) ==
    IF userId \in DOMAIN portfolios THEN portfolios
    ELSE mapSet(portfolios, userId,
                [ balance        |-> WUnits(1000),
                  initialBalance |-> WUnits(1000),
                  positions      |-> <<>>,
                  closedTrades   |-> <<>>,
                  totalTrades    |-> 0,
                  wins           |-> 0,
                  losses         |-> 0,
                  pnlHistory     |-> << [value |-> WUnits(1000)] >> ])

\* priceMap[pos.coinId] || pos.currentPrice
workerMarkPrice(pos, priceMap) ==
    IF pos.coinId \in DOMAIN priceMap /\ priceMap[pos.coinId] # 0
    THEN priceMap[pos.coinId] ELSE pos.currentPrice

\* The body of the loop of the worker's updatePositions for one position.
workerUpdateOne(st, pos0, priceMap) ==
    LET price == workerMarkPrice(pos0, priceMap)
        pnl == IF pos0.type = "LONG"
               THEN ratio((price - pos0.entryPrice) * pos0.quantity.num, pos0.quantity.den)
               ELSE ratio((pos0.entryPrice - price) * pos0.quantity.num, pos0.quantity.den)
        pos == [pos0 EXCEPT !.currentPrice = price,
                            !.pnl = pnl,
                            !.pnlPercent = ratio(pnl * 100, pos0.size)]
        closeReason == closeReasonOf(pos, price)
    IN  IF closeReason # "none"
        THEN LET c == [pos EXCEPT !.closeReason = closeReason]
             IN  [st EXCEPT !.p.balance = @ + c.size + c.pnl,
                            !.p.totalTrades = @ + 1,
                            !.p.wins = IF c.pnl > 0 THEN @ + 1 ELSE @,
                            !.p.losses = IF c.pnl > 0 THEN @ ELSE @ + 1,
                            !.p.closedTrades = unshift(@, c),
                            !.closed = Append(@, c.coinId)]
        ELSE [st EXCEPT !.remaining = Append(@, pos)]

RECURSIVE workerUpdateLoop(_, _, _)
workerUpdateLoop(st, positions, priceMap) ==
    IF positions = <<>> THEN st
    ELSE workerUpdateLoop(workerUpdateOne(st, Head(positions), priceMap),
                          Tail(positions), priceMap)

\* updatePositions(portfolio, priceMap) of the worker
workerUpdatePositions(p, priceMap) ==
    LET st == workerUpdateLoop([p |-> p, remaining |-> <<>>, closed |-> <<>>],
                               p.positions, priceMap)
    IN  [st.p EXCEPT !.positions = st.remaining]

\* The position runCycle opens for a coin at a price.
workerPosition(coinId, decision, price, size) ==
    [ coinId       |-> coinId,
      type         |-> decision.type,
      entryPrice   |-> price,
      currentPrice |-> price,
      size         |-> size,
      quantity     |-> [num |-> size, den |-> price],
      tp1 |-> decision.tp1, tp2 |-> decision.tp2, tp3 |-> decision.tp3,
      sl           |-> decision.sl,
      pnl          |-> 0,
      pnlPercent   |-> 0,
      status       |-> "OPEN",
      closeReason  |-> "none" ]

\* decision.type === "LONG" ? (sl < price && tp1 > price) : (sl > price && tp1 < price)
decisionValid(decision, price) ==
    IF decision.type = "LONG"
    THEN decision.sl < price /\ decision.tp1 > price
    ELSE decision.sl > price /\ decision.tp1 < price

\* The scan of one coin, after its lookups and the AI have answered: the
\* position is opened when the decision is OPEN with valid levels and the
\* size is at least 5.
workerOpen(p, coinId, decision, price) ==
    LET size == ratio(p.balance, 10)
    IN  IF decisionValid(decision, price) /\ size >= WUnits(5)
        THEN [p EXCEPT !.balance = @ - size,
                       !.positions = Append(@, workerPosition(coinId, decision, price, size))]
        ELSE p

RECURSIVE SumOpen(_)
SumOpen(s) == IF s = <<>> THEN 0 ELSE Head(s).size + Head(s).pnl + SumOpen(Tail(s))

\* parentPort.postMessage(msg)
postMessage(wr, msg) == [wr EXCEPT !.events = Append(@, msg)]

\* The tick k of the worker is over: it leaves the ticks in flight.
tickOver(wr, k) == [wr EXCEPT !.ticks = splice(@, k)]

\* The end of runCycle (the pnlHistory sample) and of tick (the two
\* messages to the manager).
finishCycle(wr, k) ==
    LET p == wr.portfolios[wr.userId]
        q == [p EXCEPT !.pnlHistory = Append(@, [value |-> p.balance + SumOpen(p.positions)])]
        w1 == [wr EXCEPT !.portfolios = mapSet(@, wr.userId, q)]
    IN  tickOver(postMessage(postMessage(w1, [type |-> "logs", logs |-> <<"cycle">>]),
                             [type |-> "portfolio", portfolio |-> q]), k)

\* The first coin of the watch list, from index i on, without a position.
nextCoin(watchlist, positions, i) ==
    LET S == {j \in i..Len(watchlist) :
                 \A n \in 1..Len(positions) : positions[n].coinId # watchlist[j]}
    IN  IF S = {} THEN Len(watchlist) + 1
        ELSE CHOOSE j \in S : \A l \in S : j <= l

\* The for loop over the watch list from index i: it runs to the await of
\* the first coin without a position, or to the end of the cycle.
scanFrom(wr, k, i) ==
    LET j == nextCoin(wr.watchlist, wr.portfolios[wr.userId].positions, i)
    IN  IF j > Len(wr.watchlist) THEN finishCycle(wr, k)
        ELSE [wr EXCEPT !.ticks[k] = [pc |-> "scan", i |-> j, attempt |-> 0]]

\* if (portfolio.positions.length < 3) { for ... } else "Max positions"
enterScan(wr, k) ==
    IF Len(wr.portfolios[wr.userId].positions) < 3
    THEN scanFrom(wr, k, 1)
    ELSE finishCycle(wr, k)

\* tick() is called: runCycle runs to its first await.
beginTick(wr) ==
    LET w1 == [wr EXCEPT !.portfolios = workerGetPortfolio(@, wr.userId),
                         !.started = @ + 1,
                         !.ticks = Append(@, [pc |-> "prices", i |-> 0, attempt |-> 0])]
        k == Len(w1.ticks)
    IN  IF w1.portfolios[wr.userId].positions # <<>> THEN w1 ELSE enterScan(w1, k)

\* The worker without try/catch in tick: the exception is uncaught, the
\* thread dies and the manager gets 'error' and 'exit'.
tickThrowsUncaught(wr, k) ==
    [wr EXCEPT !.phase = "stopped",
               !.events = @ \o << [type |-> "workerError"], [type |-> "exit", code |-> 1] >>]

\* runCycle rejects: catch (err) posts the error, the tick is over.
tickCatches(wr, k) == tickOver(postMessage(wr, [type |-> "error"]), k)

(* The manager *)

\* The worker startBot creates, with its BotState.
newBot(userId) ==
    [ userId     |-> userId,
      state      |-> [logs |-> <<"started">>, isRunning |-> TRUE, cycleCount |-> 0],
      phase      |-> "loading",
      events     |-> <<>>,
      ticks      |-> <<>>,
      started    |-> 0,
      watchlist  |-> BotWatchlist,
      portfolios |-> NoMap ]

\* Without the test of bots.has(userId).
botsHasNever(map, userId) == FALSE

\* bots.has(userId)
botsHas(map, userId) == userId \in DOMAIN map

\* What startBot returns, Worker being available and new Worker not throwing.
startBotResult(map, userId) ==
    IF botsHas(map, userId)
    THEN Result("startBot", FALSE, "ALREADY_RUNNING", NoId)
    ELSE Result("startBot", TRUE, "STARTED", NoId)

startBot(userId) ==
    /\ IF botsHas(bots, userId)
       THEN UNCHANGED <<bots, workers>>
       ELSE /\ workers' = Append(workers, newBot(userId))
            /\ bots' = mapSet(bots, userId, Len(workers) + 1)
    /\ result' = startBotResult(bots, userId)
    /\ UNCHANGED <<portfolio, now, nextOrderId, calls, cron>>

\* worker.terminate(): the thread stops where it is, 'exit' follows.
terminate(wr) ==
    IF wr.phase = "stopped" THEN wr
    ELSE [wr EXCEPT !.phase = "stopped",
                    !.events = Append(@, [type |-> "exit", code |-> 1])]

stopBot(userId) ==
    /\ IF ~botsHas(bots, userId)
       THEN /\ result' = Result("stopBot", FALSE, "NOT_FOUND", NoId)
            /\ UNCHANGED <<bots, workers>>
       ELSE /\ workers' = [workers EXCEPT ![bots[userId]] = terminate(@)]
            /\ bots' = mapDelete(bots, userId)
            /\ result' = Result("stopBot", TRUE, "STOPPED", NoId)
    /\ UNCHANGED <<portfolio, now, nextOrderId, calls, cron>>

\* What getBotStatus returns (uptime left out).
botStatus(map, ws, userId) ==
    IF ~botsHas(map, userId)
    THEN [op |-> "getBotStatus", isRunning |-> FALSE, logs |-> <<>>, cycleCount |-> 0]
    ELSE LET state == ws[map[userId]].state
         IN  [op |-> "getBotStatus", isRunning |-> state.isRunning,
              logs |-> SubSeq(state.logs, Max(1, Len(state.logs) - 99), Len(state.logs)),
              cycleCount |-> state.cycleCount]

getBotStatus(userId) ==
    /\ result' = botStatus(bots, workers, userId)
    /\ UNCHANGED <<portfolio, now, nextOrderId, calls, cron, bots, workers>>

\* state.logs.push(...msg.logs); if (length > 200) logs = logs.slice(-200)
pushLogs(logs, more) ==
    LET s == logs \o more
    IN  IF Len(s) > 200 THEN SubSeq(s, Len(s) - 199, Len(s)) ELSE s

\* The body of worker.on("message")
handleMessage(state, msg) ==
    IF msg.type = "logs"
    THEN [state EXCEPT !.logs = pushLogs(@, msg.logs), !.cycleCount = @ + 1]
    ELSE IF msg.type = "error"
    THEN [state EXCEPT !.logs = Append(@, "error")]
    ELSE state

\* worker.on("message"): the oldest message of worker w is handled.
onMessage(w) ==
    /\ workers[w].events # <<>>
    /\ Head(workers[w].events).type \in {"logs", "error", "portfolio", "started"}
    /\ LET msg == Head(workers[w].events)
       IN  workers' = [workers EXCEPT
               ![w].events = Tail(@),
               ![w].state = handleMessage(@, msg)]
    /\ result' = NoResult
    /\ UNCHANGED <<portfolio, now, nextOrderId, calls, cron, bots>>

\* worker.on("error")
onError(w) ==
    /\ workers[w].events # <<>>
    /\ Head(workers[w].events).type = "workerError"
    /\ workers' = [workers EXCEPT ![w].events = Tail(@),
                                  ![w].state.logs = Append(@, "worker error"),
                                  ![w].state.isRunning = FALSE]
    /\ bots' = mapDelete(bots, workers[w].userId)
    /\ result' = NoResult
    /\ UNCHANGED <<portfolio, now, nextOrderId, calls, cron>>

\* worker.on("exit")
onExit(w) ==
    /\ workers[w].events # <<>>
    /\ Head(workers[w].events).type = "exit"
    /\ workers' = [workers EXCEPT
           ![w].events = Tail(@),
           ![w].state.isRunning = FALSE,
           ![w].state.logs = IF Head(workers[w].events).code # 0
                             THEN Append(@, "exit code") ELSE @]
    /\ bots' = mapDelete(bots, workers[w].userId)
    /\ result' = NoResult
    /\ UNCHANGED <<portfolio, now, nextOrderId, calls, cron>>

(* The steps of the worker thread *)

\* A step of worker w that takes its record to wr.
workerStep(w, wr) ==
    /\ workers' = [workers EXCEPT ![w] = wr]
    /\ result' = NoResult
    /\ UNCHANGED <<portfolio, now, nextOrderId, calls, cron, bots>>

\* The module of the worker runs: tick(), setInterval(tick, INTERVAL) and
\* the "started" message.
workerLoads(w) ==
    /\ workers[w].phase = "loading"
    /\ workerStep(w, postMessage(beginTick([workers[w] EXCEPT !.phase = "running"]),
                                 [type |-> "started"]))

\* The file of the worker cannot be loaded: 'error', then 'exit'.
workerFailsToLoad(w) ==
    /\ workers[w].phase = "loading"
    /\ workerStep(w, [workers[w] EXCEPT
           !.phase = "stopped",
           !.events = @ \o << [type |-> "workerError"], [type |-> "exit", code |-> 1] >>])

\* The interval timer calls tick, whatever the ticks in flight.
timerFires(w) ==
    /\ workers[w].phase = "running"
    /\ workers[w].started < MaxTicks
    /\ workerStep(w, beginTick(workers[w]))

\* The prices of the open positions have arrived (a coin without a price
\* is left out): updatePositions, then the scan.
tickMark(w, k, priceMap) ==
    /\ workers[w].phase = "running"
    /\ workers[w].ticks[k].pc = "prices"
    /\ LET wr == workers[w]
           q == workerUpdatePositions(wr.portfolios[wr.userId], priceMap)
       IN  workerStep(w, enterScan([wr EXCEPT !.portfolios = mapSet(@, wr.userId, q)], k))

\* The lookups and the AI have answered for the coin the scan waits on:
\* with open the decision is OPEN at a price of 100, without it the coin
\* is skipped (no price, SKIP, low confidence or a caught error).
tickScan(w, k, open) ==
    /\ workers[w].phase = "running"
    /\ workers[w].ticks[k].pc = "scan"
    /\ LET wr == workers[w]
           i == wr.ticks[k].i
           p == wr.portfolios[wr.userId]
           q == IF open THEN workerOpen(p, wr.watchlist[i], BotDecision, 100) ELSE p
       IN  workerStep(w, scanFrom([wr EXCEPT !.portfolios = mapSet(@, wr.userId, q)], k, i + 1))

\* What the AI answers for a coin: an action and a confidence of 0 to 10.
BotSignals == [action : {"OPEN", "SKIP"}, confidence : {5, 6, 7}]

\* if (decision?.action === "OPEN" && decision.confidence >= 6 && price)
signalOpens(signal) == signal.action = "OPEN" /\ signal.confidence >= 6

\* The scan step of a coin whose price is known and whose AI answer is
\* signal.
tickSignal(w, k, signal) == tickScan(w, k, signalOpens(signal))

\* fetchJSON, answered with HTTP 429: it waits 2 s and calls itself.  The
\* code keeps no count of its attempts; attempt tells one from the next.
lookupRetries(w, k) ==
    /\ workers[w].phase = "running"
    /\ workers[w].ticks[k].pc \in {"prices", "scan"}
    /\ workerStep(w, [workers[w] EXCEPT !.ticks[k].attempt = 1 - @])

\* runCycle throws at the await the tick is waiting on.
tickThrows(w, k) ==
    /\ workers[w].phase = "running"
    /\ workerStep(w, tickCatches(workers[w], k))

\* The coins of the positions of worker w
positionCoins(w) ==
    LET wr == workers[w]
    IN  IF wr.userId \in DOMAIN wr.portfolios
        THEN CoinIds(wr.portfolios[wr.userId].positions) ELSE {}

BotPriceMaps(w) == UNION {[S -> BotPrices] : S \in SUBSET positionCoins(w)}

----------------------------------------------------------------------------
(* The cron route (src/app/paper-trading/page.tsx, GET, lines 528-627) and *)
(* the refresh route (src/unnamed/part_002, GET, lines 79-128).  Both run   *)
(* on the main thread against the engine's portfolio of the user id they    *)
(* are given; the cron request is one tick of the schedule.  cron holds the *)
(* position of the cron request in progress: "prices" while it awaits the   *)
(* prices, "ai" while it awaits the lookups and the decision for watch-list *)
(* coin i, "delay" in the 500 ms pause after that coin; n counts the        *)
(* requests started.                                                        *)

MaxCronTicks == 2    \* cron requests in one behaviour of SpecShare
MaxShareCalls == 2   \* refresh requests in one behaviour of SpecShare

CronWatchlist == <<"bitcoin", "ethereum">>

SharePrices == {90, 100}

CronIdle == [phase |-> "idle", i |-> 0, priceMap |-> NoMap, n |-> 0]

\* The coins of the positions and the pending orders.
heldCoins(p) == CoinIds(p.positions) \cup CoinIds(p.pendingOrders)

\* The for loop over the watch list from index i: the first coin with no
\* pending order and no position, or 0 when the loop ends.
cronSeek(p, i) ==
    LET S == {j \in i..Len(CronWatchlist) : CronWatchlist[j] \notin heldCoins(p)}
    IN  IF S = {} THEN 0 ELSE CHOOSE j \in S : \A l \in S : j <= l

\* The request goes on to the coin the loop finds, or returns.
cronGoes(c, p, i) ==
    LET j == cronSeek(p, i)
    IN  IF j = 0 THEN [c EXCEPT !.phase = "idle", !.i = 0, !.priceMap = NoMap]
        ELSE [c EXCEPT !.phase = "ai", !.i = j]

\* The request arrives: getPortfolio, then the await of the prices.
cronStart ==
    /\ cron.phase = "idle"
    /\ cron.n < MaxCronTicks
    /\ cron' = [cron EXCEPT !.phase = "prices", !.n = @ + 1]
    /\ UNCHANGED <<portfolio, now, nextOrderId, result, calls, bots, workers>>

\* The two engine calls in the other order: updatePositions, then
\* checkAndFillOrders.
cronReconcileUpdateFirst(priceMap) ==
    LET st2 == markPositions(portfolio, priceMap)
        st1 == fillOrders(st2.p, priceMap, now)
        c == [cron EXCEPT !.priceMap = priceMap]
    IN  /\ cron.phase = "prices"
        /\ portfolio' = st1.p
        /\ result' = [NoResult EXCEPT !.op = "cron",
                                      !.filled = st1.filled, !.expired = st1.expired,
                                      !.closed = st2.closed, !.updated = st2.updated]
        /\ cron' = IF Len(st1.p.pendingOrders) < 5
                   THEN cronGoes(c, st1.p, 1)
                   ELSE [c EXCEPT !.phase = "idle", !.i = 0, !.priceMap = NoMap]
        /\ UNCHANGED <<now, nextOrderId, calls, bots, workers>>

\* The prices are in: checkAndFillOrders, updatePositions, and the head of
\* the scan (only if fewer than 5 orders are pending).
cronReconcile(priceMap) ==
    LET st1 == fillOrders(portfolio, priceMap, now)
        st2 == markPositions(st1.p, priceMap)
        c == [cron EXCEPT !.priceMap = priceMap]
    IN  /\ cron.phase = "prices"
        /\ portfolio' = st2.p
        /\ result' = [NoResult EXCEPT !.op = "cron",
                                      !.filled = st1.filled, !.expired = st1.expired,
                                      !.closed = st2.closed, !.updated = st2.updated]
        /\ cron' = IF Len(st2.p.pendingOrders) < 5
                   THEN cronGoes(c, st2.p, 1)
                   ELSE [c EXCEPT !.phase = "idle", !.i = 0, !.priceMap = NoMap]
        /\ UNCHANGED <<now, nextOrderId, calls, bots, workers>>

\* The lookups and the decision for coin i are in.  "nodata": a lookup or
\* the price is missing, or the answer does not parse (continue); "skip":
\* the decision is not an order of confidence 7 or more; "place": it is.
cronDecide(choice) ==
    LET coinId == CronWatchlist[cron.i]
        has == coinId \in DOMAIN cron.priceMap
    IN  /\ cron.phase = "ai"
        /\ IF choice = "place" /\ has
           THEN /\ placeLimitOrder(coinId, "BUY_LIMIT", cron.priceMap[coinId],
                                   95, 110, 120, 130, 90, 1000)
                /\ cron' = [cron EXCEPT !.phase = "delay"]
           ELSE /\ cron' = IF choice = "skip" /\ has
                           THEN [cron EXCEPT !.phase = "delay"]
                           ELSE cronGoes(cron, portfolio, cron.i + 1)
                /\ UNCHANGED <<portfolio, now, nextOrderId, result>>
        /\ UNCHANGED <<calls, bots, workers>>

\* The pause is over: the head of the loop for the next coin.
cronNext ==
    /\ cron.phase = "delay"
    /\ cron' = cronGoes(cron, portfolio, cron.i + 1)
    /\ UNCHANGED <<portfolio, now, nextOrderId, result, calls, bots, workers>>

\* The refresh request, from the moment its prices are in: with a position
\* or a pending order, checkAndFillOrders then updatePositions.
refresh(priceMap) ==
    LET st1 == fillOrders(portfolio, priceMap, now)
        st2 == markPositions(st1.p, priceMap)
    IN  /\ IF heldCoins(portfolio) # {}
           THEN /\ portfolio' = st2.p
                /\ result' = [NoResult EXCEPT !.op = "refresh",
                                              !.filled = st1.filled,
                                              !.expired = st1.expired,
                                              !.closed = st2.closed,
                                              !.updated = st2.updated]
           ELSE /\ portfolio' = portfolio
                /\ result' = [NoResult EXCEPT !.op = "refresh"]
        /\ UNCHANGED <<now, nextOrderId>>

CronMaps == UNION {[S -> SharePrices] : S \in SUBSET Range(CronWatchlist)}

RefreshMaps == UNION {[S -> SharePrices] : S \in SUBSET heldCoins(portfolio)}


\* No bot has been started and no cron request is in progress.
InitScheduler ==
    /\ bots = NoMap
    /\ workers = <<>>
    /\ cron = CronIdle

----------------------------------------------------------------------------
(* The environment: the clock, and the inputs of the calls *)

ClockSteps == {72}

clockAdvance ==
    \E d \in ClockSteps :
        /\ now + d <= MaxTime
        /\ now' = now + d
        /\ result' = NoResult
        /\ UNCHANGED <<portfolio, nextOrderId, calls, bots, workers, cron>>

Coins == {"bitcoin", "ethereum"}

Prices == {90, 100, 110, 250}

\* Price maps: any set of coins, each with any price.
PriceMaps == UNION {[S -> Prices] : S \in SUBSET Coins}

Proposal(orderType, currentPrice, limitPrice, tp1, tp2, tp3, sl, riskPercent) ==
    [orderType |-> orderType, currentPrice |-> currentPrice, limitPrice |-> limitPrice,
     tp1 |-> tp1, tp2 |-> tp2, tp3 |-> tp3, sl |-> sl, riskPercent |-> riskPercent]

\* The orders the callers propose.  riskPercent is the callers' 10%, 0.5%
\* or 90%.  The first four pass the validation of the levels (the fourth
\* with its take-profits out of order); each of the others breaks one rule
\* of the validation, equalities included.
Proposals ==
    { Proposal("BUY_LIMIT", 100, 95, 110, 120, 130, 90, 1000),
      Proposal("BUY_LIMIT", 100, 95, 110, 120, 130, 90, 50),
      Proposal("SELL_LIMIT", 100, 105, 95, 90, 85, 110, 9000),
      Proposal("BUY_LIMIT", 100, 95, 110, 105, 100, 90, 1000),
      Proposal("BUY_LIMIT", 100, 100, 110, 120, 130, 90, 1000),
      Proposal("SELL_LIMIT", 100, 100, 95, 90, 85, 110, 1000),
      Proposal("BUY_LIMIT", 100, 95, 110, 120, 130, 95, 1000),
      Proposal("BUY_LIMIT", 100, 95, 95, 120, 130, 90, 1000),
      Proposal("SELL_LIMIT", 100, 105, 95, 90, 85, 105, 1000),
      Proposal("SELL_LIMIT", 100, 105, 105, 90, 85, 110, 1000) }

\* One engine call, of MaxCalls at most.
call(n) == calls < n /\ calls' = calls + 1 /\ UNCHANGED <<bots, workers, cron>>

Init ==
    /\ portfolio = getPortfolio
    /\ now = 0
    /\ nextOrderId = 1
    /\ result = NoResult
    /\ calls = 0
    /\ InitScheduler

\* cancelOrder is called with the id of any order placed so far, or with an
\* id no order has (nextOrderId).
Next ==
    \/ \E c \in Coins, o \in Proposals :
          /\ call(MaxCalls)
          /\ placeLimitOrder(c, o.orderType, o.currentPrice, o.limitPrice,
                             o.tp1, o.tp2, o.tp3, o.sl, o.riskPercent)
    \/ \E id \in 1..nextOrderId : call(MaxCalls) /\ cancelOrder(id)
    \/ \E m \in PriceMaps : call(MaxCalls) /\ checkAndFillOrders(m)
    \/ \E m \in PriceMaps : call(MaxCalls) /\ updatePositions(m)
    \/ call(MaxCalls) /\ resetPortfolio
    \/ clockAdvance

Spec == Init /\ [][Next]_vars

----------------------------------------------------------------------------
(* The capacity limits need more instruments than the two of Spec: six     *)
(* coins (the watch list of the callers and one more), one well-formed     *)
(* BUY_LIMIT proposal for each, and price maps that quote every coin at    *)
(* one price.                                                              *)

CapCoins == {"bitcoin", "ethereum", "solana", "binancecoin", "ripple", "dogecoin"}

CapPrices == {90}

CapPriceMaps == {[c \in CapCoins |-> x] : x \in CapPrices}

NextCap ==
    \/ \E c \in CapCoins :
          /\ call(MaxCapCalls)
          /\ placeLimitOrder(c, "BUY_LIMIT", 100, 95, 110, 120, 130, 90, 1000)
    \/ \E id \in 1..nextOrderId : call(MaxCapCalls) /\ cancelOrder(id)
    \/ \E m \in CapPriceMaps : call(MaxCapCalls) /\ checkAndFillOrders(m)
    \/ \E m \in CapPriceMaps : call(MaxCapCalls) /\ updatePositions(m)
    \/ call(MaxCapCalls) /\ resetPortfolio

SpecCap == Init /\ [][NextCap]_vars

----------------------------------------------------------------------------
(* The reconciliation calls are pure in the portfolio, the clock and the   *)
(* price map.  SpecTick is Spec one call shorter: what the next            *)
(* checkAndFillOrders or updatePositions call does is computed, for every  *)
(* price map, in each state it reaches.                                    *)

MaxTickCalls == 3   \* engine calls in one behaviour of SpecTick

NextTick ==
    \/ \E c \in Coins, o \in Proposals :
          /\ call(MaxTickCalls)
          /\ placeLimitOrder(c, o.orderType, o.currentPrice, o.limitPrice,
                             o.tp1, o.tp2, o.tp3, o.sl, o.riskPercent)
    \/ \E id \in 1..nextOrderId : call(MaxTickCalls) /\ cancelOrder(id)
    \/ \E m \in PriceMaps : call(MaxTickCalls) /\ checkAndFillOrders(m)
    \/ \E m \in PriceMaps : call(MaxTickCalls) /\ updatePositions(m)
    \/ call(MaxTickCalls) /\ resetPortfolio
    \/ clockAdvance

SpecTick == Init /\ [][NextTick]_vars

----------------------------------------------------------------------------
(* The cap of pnlHistory is 500 samples, one per updatePositions call.     *)
(* SpecHist starts from the portfolio that 498 or 499 updatePositions      *)
(* calls leave when no order has been placed yet: nothing but pnlHistory   *)
(* has changed, and every sample is the initial balance.  One              *)
(* well-formed BUY_LIMIT proposal per coin, and price maps that quote      *)
(* both coins at one price, then move the value of the samples.            *)

MaxHistCalls == 4   \* engine calls in one behaviour of SpecHist

HistLens == {MAX_PNL_HISTORY - 1, MAX_PNL_HISTORY}

HistPrices == {90, 100, 110}

HistPriceMaps == {[c \in Coins |-> x] : x \in HistPrices}

\* pnlHistory after n - 1 updatePositions calls on a fresh portfolio
idleHistory(n) == [i \in 1..n |-> [value |-> Dollars(INITIAL_BALANCE)]]

InitHist ==
    /\ \E n \in HistLens : portfolio = [getPortfolio EXCEPT !.pnlHistory = idleHistory(n)]
    /\ now = 0
    /\ nextOrderId = 1
    /\ result = [NoResult EXCEPT !.op = "updatePositions"]
    /\ calls = 0
    /\ InitScheduler

NextHist ==
    \/ \E c \in Coins :
          /\ call(MaxHistCalls)
          /\ placeLimitOrder(c, "BUY_LIMIT", 100, 95, 110, 120, 130, 90, 1000)
    \/ \E m \in HistPriceMaps : call(MaxHistCalls) /\ checkAndFillOrders(m)
    \/ \E m \in HistPriceMaps : call(MaxHistCalls) /\ updatePositions(m)
    \/ call(MaxHistCalls) /\ resetPortfolio

SpecHist == InitHist /\ [][NextHist]_vars

----------------------------------------------------------------------------
(* The histories closedTrades and cancelledOrders after a hundred trades.  *)
(* SpecLogs starts from the portfolio that 99 or 100 rounds of either      *)
(* place, fill, close at the stop loss (tradeRound) or place, cancel       *)
(* (cancelRound) leave, all within the first hour.                         *)

MaxLogCalls == 4    \* engine calls in one behaviour of SpecLogs

LogLens == {MAX_CLOSED_TRADES - 1, MAX_CLOSED_TRADES}

LogPrices == {90, 110}

LogPriceMaps == {[c \in Coins |-> x] : x \in LogPrices}

\* The portfolio after placeLimitOrder(bitcoin, BUY_LIMIT 95, tp 110/120/130,
\* sl 90, 10%) at time 0, the order taking the id given.
placed(p, id) ==
    LET order == newOrder(id, "bitcoin", "BUY_LIMIT", 100, 95, 110, 120, 130, 90,
                          orderSize(p.balance, 1000), 1000, 0)
    IN  IF placeLimitOrderCheck(p, "bitcoin", "BUY_LIMIT", 100, 95, 110, 90, 1000) = "OK"
        THEN placeAccepted(p, order)
        ELSE placeRejected(p, order)

\* place, checkAndFillOrders and updatePositions at a price of 90: the order
\* is filled and the position closed at its stop loss.
tradeRound(p, id) ==
    LET m == [c \in {"bitcoin"} |-> 90]
    IN  markPositions(fillOrders(placed(p, id), m, 0).p, m).p

\* place, then cancelOrder of the order placed.
cancelRound(p, id) ==
    LET q == placed(p, id)
    IN  IF findIndex(q.pendingOrders, id) = 0
        THEN cancelNotFound(q, id)
        ELSE cancelFound(q, findIndex(q.pendingOrders, id))

\* The rounds lo..hi, one after the other, on the portfolio p; round i takes
\* the order id i.  The first half is computed before the second starts.
RECURSIVE tradeRounds(_, _, _)
tradeRounds(p, lo, hi) ==
    IF lo > hi THEN p
    ELSE IF lo = hi THEN tradeRound(p, lo)
    ELSE LET mid == (lo + hi) \div 2
         IN  CHOOSE r \in {tradeRounds(q, mid + 1, hi) : q \in {tradeRounds(p, lo, mid)}} : TRUE

RECURSIVE cancelRounds(_, _, _)
cancelRounds(p, lo, hi) ==
    IF lo > hi THEN p
    ELSE IF lo = hi THEN cancelRound(p, lo)
    ELSE LET mid == (lo + hi) \div 2
         IN  CHOOSE r \in {cancelRounds(q, mid + 1, hi) : q \in {cancelRounds(p, lo, mid)}} : TRUE

afterTrades(n) == tradeRounds(getPortfolio, 1, n)

afterCancels(n) == cancelRounds(getPortfolio, 1, n)

InitLogs ==
    /\ \E n \in LogLens : portfolio \in {afterTrades(n), afterCancels(n)}
                          /\ nextOrderId = n + 1
    /\ now = 0
    /\ result = NoResult
    /\ calls = 0
    /\ InitScheduler

NextLogs ==
    \/ \E c \in Coins :
          /\ call(MaxLogCalls)
          /\ placeLimitOrder(c, "BUY_LIMIT", 100, 95, 110, 120, 130, 90, 1000)
    \/ \E id \in (nextOrderId - 2)..nextOrderId : call(MaxLogCalls) /\ cancelOrder(id)
    \/ \E m \in LogPriceMaps : call(MaxLogCalls) /\ checkAndFillOrders(m)
    \/ \E m \in LogPriceMaps : call(MaxLogCalls) /\ updatePositions(m)
    \/ call(MaxLogCalls) /\ resetPortfolio
    \/ clockAdvance

SpecLogs == InitLogs /\ [][NextLogs]_vars

----------------------------------------------------------------------------
(* The manager and its workers, for one user: the three operations of the  *)
(* bot route, the handlers of the workers' events and the steps of the     *)
(* worker threads, in any order.                                           *)

NextBot ==
    \/ \E u \in Users : Len(workers) < MaxWorkers /\ startBot(u)
    \/ \E u \in Users : stopBot(u)
    \/ \E u \in Users : getBotStatus(u)
    \/ \E w \in 1..Len(workers) : onMessage(w)
    \/ \E w \in 1..Len(workers) : onError(w)
    \/ \E w \in 1..Len(workers) : onExit(w)
    \/ \E w \in 1..Len(workers) : workerLoads(w)
    \/ \E w \in 1..Len(workers) : workerFailsToLoad(w)

SpecBot == Init /\ [][NextBot]_vars

----------------------------------------------------------------------------
(* One worker and its ticks.  SpecWorker starts in the state the first     *)
(* startBot of the user leaves; the worker loads, its timer fires, its     *)
(* ticks go from await to await, its messages are handled, and the user    *)
(* may stop it.                                                            *)

InitWorker ==
    /\ portfolio = getPortfolio
    /\ now = 0
    /\ nextOrderId = 1
    /\ calls = 0
    /\ cron = CronIdle
    /\ workers = <<newBot("default")>>
    /\ bots = mapSet(NoMap, "default", 1)
    /\ result = startBotResult(NoMap, "default")

NextWorker ==
    \/ \E u \in Users : stopBot(u)
    \/ \E w \in 1..Len(workers) : onMessage(w)
    \/ \E w \in 1..Len(workers) : onExit(w)
    \/ \E w \in 1..Len(workers) : workerLoads(w)
    \/ \E w \in 1..Len(workers) : timerFires(w)
    \/ \E w \in 1..Len(workers) : \E k \in 1..Len(workers[w].ticks) :
          \E m \in BotPriceMaps(w) : tickMark(w, k, m)
    \/ \E w \in 1..Len(workers) : \E k \in 1..Len(workers[w].ticks) :
          \E signal \in BotSignals : tickSignal(w, k, signal)
    \/ \E w \in 1..Len(workers) : \E k \in 1..Len(workers[w].ticks) : tickThrows(w, k)

SpecWorker == InitWorker /\ [][NextWorker]_vars

(* The cron request and the refresh requests of one user on the main      *)
(* thread, each step at the moment the code reaches it.                    *)

NextShare ==
    \/ cronStart
    \/ \E m \in CronMaps : cronReconcile(m)
    \/ \E choice \in {"place", "skip", "nodata"} : cronDecide(choice)
    \/ cronNext
    \/ \E m \in RefreshMaps : call(MaxShareCalls) /\ refresh(m)

SpecShare == Init /\ [][NextShare]_vars

(* The worker's ticks together with the on-demand operations of the same  *)
(* user on the main thread.                                                *)

MaxStoreCalls == 2   \* on-demand engine calls in one behaviour of SpecStore

NextStore ==
    \/ \E w \in 1..Len(workers) : onMessage(w)
    \/ \E w \in 1..Len(workers) : workerLoads(w)
    \/ \E w \in 1..Len(workers) : timerFires(w)
    \/ \E w \in 1..Len(workers) : \E k \in 1..Len(workers[w].ticks) :
          \E m \in BotPriceMaps(w) : tickMark(w, k, m)
    \/ \E w \in 1..Len(workers) : \E k \in 1..Len(workers[w].ticks) :
          \E signal \in BotSignals : tickSignal(w, k, signal)
    \/ \E c \in Coins :
          /\ call(MaxStoreCalls)
          /\ placeLimitOrder(c, "BUY_LIMIT", 100, 95, 110, 120, 130, 90, 1000)
    \/ \E m \in [Coins -> SharePrices] : call(MaxStoreCalls) /\ checkAndFillOrders(m)
    \/ call(MaxStoreCalls) /\ resetPortfolio

SpecStore == InitWorker /\ [][NextStore]_vars

(* A worker that has run for long: the log buffer of its task holds the  *)
(* lines of 199 or 200 cycles in which every coin was skipped.  From there *)
(* the timer fires, ticks scan or fail, the manager handles the messages   *)
(* and answers getBotStatus.                                               *)

BufCycles == {199, 200}

\* The scan steps of tick k with every coin skipped, to the end of the cycle.
RECURSIVE skipAll(_, _)
skipAll(wr, k) ==
    IF Len(wr.ticks) < k THEN wr ELSE skipAll(scanFrom(wr, k, wr.ticks[k].i + 1), k)

\* The manager handles every message the worker has posted.
RECURSIVE deliver(_)
deliver(wr) ==
    IF wr.events = <<>> THEN wr
    ELSE deliver([wr EXCEPT !.events = Tail(@),
                            !.state = handleMessage(@, Head(wr.events))])

\* One tick that skips every coin, and its messages handled.
quietCycle(wr) ==
    LET w1 == beginTick(wr)
    IN  deliver(skipAll(w1, Len(w1.ticks)))

RECURSIVE cycleRounds(_, _, _)
cycleRounds(wr, lo, hi) ==
    IF lo > hi THEN wr
    ELSE IF lo = hi THEN quietCycle(wr)
    ELSE LET mid == (lo + hi) \div 2
         IN  CHOOSE r \in {cycleRounds(q, mid + 1, hi) : q \in {cycleRounds(wr, lo, mid)}} : TRUE

\* The worker after n such cycles; its ticks are counted from here.
afterCycles(n) ==
    LET wr0 == postMessage([newBot("default") EXCEPT !.phase = "running"],
                           [type |-> "started"])
    IN  [cycleRounds(wr0, 1, n) EXCEPT !.started = 0]

InitBuf ==
    /\ portfolio = getPortfolio
    /\ now = 0
    /\ nextOrderId = 1
    /\ calls = 0
    /\ cron = CronIdle
    /\ \E n \in BufCycles : workers = <<afterCycles(n)>>
    /\ bots = mapSet(NoMap, "default", 1)
    /\ result = NoResult

NextBuf ==
    \/ \E u \in Users : getBotStatus(u)
    \/ \E w \in 1..Len(workers) : onMessage(w)
    \/ \E w \in 1..Len(workers) : timerFires(w)
    \/ \E w \in 1..Len(workers) : \E k \in 1..Len(workers[w].ticks) :
          \E signal \in BotSignals : tickSignal(w, k, signal)
    \/ \E w \in 1..Len(workers) : \E k \in 1..Len(workers[w].ticks) : tickThrows(w, k)

SpecBuf == InitBuf /\ [][NextBuf]_vars

(* One cycle of a worker over the whole watch list, from the first        *)
(* startBot of the user: the worker loads, its first tick scans the five   *)
(* coins, the manager handles what the worker posts.                       *)

InitScan ==
    /\ portfolio = getPortfolio
    /\ now = 0
    /\ nextOrderId = 1
    /\ calls = 0
    /\ cron = CronIdle
    /\ workers = <<[newBot("default") EXCEPT !.watchlist = WATCHLIST]>>
    /\ bots = mapSet(NoMap, "default", 1)
    /\ result = startBotResult(NoMap, "default")

NextScan ==
    \/ \E w \in 1..Len(workers) : onMessage(w)
    \/ \E w \in 1..Len(workers) : workerLoads(w)
    \/ \E w \in 1..Len(workers) : \E k \in 1..Len(workers[w].ticks) :
          \E signal \in BotSignals : tickSignal(w, k, signal)

SpecScan == InitScan /\ [][NextScan]_vars

(* The first cycle of a worker with the lookups of its scan: each lookup   *)
(* is answered, with a result or with HTTP 429, and the manager handles    *)
(* what the worker posts.                                                  *)

NextLookup ==
    \/ \E w \in 1..Len(workers) : onMessage(w)
    \/ \E w \in 1..Len(workers) : workerLoads(w)
    \/ \E w \in 1..Len(workers) : \E k \in 1..Len(workers[w].ticks) :
          \E signal \in BotSignals : tickSignal(w, k, signal)
    \/ \E w \in 1..Len(workers) : \E k \in 1..Len(workers[w].ticks) :
          lookupRetries(w, k)

\* The lookup the tick of worker 1 waits on is answered.
lookupAnswered ==
    \E k \in 1..Len(workers[1].ticks) :
        \/ \E signal \in BotSignals : tickSignal(1, k, signal)
        \/ lookupRetries(1, k)

\* The worker loads, every lookup is answered sooner or later, and the
\* manager handles the messages.
SpecLookup ==
    /\ InitScan
    /\ [][NextLookup]_vars
    /\ WF_vars(workerLoads(1))
    /\ WF_vars(lookupAnswered)
    /\ WF_vars(onMessage(1))

\* The timer of a running worker keeps firing and the main thread's event
\* loop keeps handling what the worker sends.
SpecWorkerLive ==
    /\ SpecWorker
    /\ WF_vars(timerFires(1))
    /\ WF_vars(onMessage(1))
    /\ WF_vars(onExit(1))

----------------------------------------------------------------------------
(* Properties *)

pending == portfolio.pendingOrders

positions == portfolio.positions

Last(s) == s[Len(s)]

IsPending(orderId) == \E i \in 1..Len(pending) : pending[i].id = orderId

\* C1: reservedBalance equals the sum of size over the orders in
\* pendingOrders, and reservedBalance >= 0, in every reachable state.
C1_ReservedIsSumOfPending ==
    /\ portfolio.reservedBalance = SumSize(pending)
    /\ portfolio.reservedBalance >= 0

\* A fill or an expiry has released a reservation while another order is
\* still pending.
C1_Witness ==
    /\ result.op = "checkAndFillOrders"
    /\ result.filled # <<>> \/ result.expired # <<>>
    /\ pending # <<>>

\* C2: balance >= 0 in every reachable state, closes of SHORT positions at
\* any positive price included.
C2_BalanceNonNegative == portfolio.balance >= 0

\* C3: at most 3 open positions and at most 5 pending orders after every
\* engine operation.
C3_CapacityLimits == Len(positions) <= 3 /\ Len(pending) <= 5

\* Three positions are open and a pending order whose limit is crossed by
\* the price map of the call stays pending.
C3_Witness ==
    /\ result.op = "checkAndFillOrders"
    /\ Len(positions) = 3
    /\ \E i \in 1..Len(pending) : \E m \in CapPriceMaps :
          isFilled(pending[i], m[pending[i].coinId])

\* C4: for each coinId at most one entity among the pending orders and the
\* open positions references it.
C4_OneExposurePerCoin ==
    /\ \A i, j \in 1..Len(pending) : i # j => pending[i].coinId # pending[j].coinId
    /\ \A i, j \in 1..Len(positions) : i # j => positions[i].coinId # positions[j].coinId
    /\ \A i \in 1..Len(pending), j \in 1..Len(positions) :
          pending[i].coinId # positions[j].coinId

\* An order for a coin that has an open position has been turned down
\* while another coin has a pending order.
C4_Witness ==
    /\ result.op = "placeLimitOrder"
    /\ result.message = "HAS_POSITION"
    /\ pending # <<>>

\* C5: a placeLimitOrder that returns success = false leaves the whole
\* portfolio as it was.
C5_RejectedPlaceChangesNothing ==
    [][(result'.op = "placeLimitOrder" /\ ~result'.success) => portfolio' = portfolio]_vars

\* An order has been turned down for lack of available balance, with an
\* order pending.
C5_Witness ==
    /\ result.op = "placeLimitOrder"
    /\ ~result.success
    /\ result.message = "INSUFFICIENT"
    /\ pending # <<>>

----------------------------------------------------------------------------
(* C6: the arguments placeLimitOrder is tried with in every reachable      *)
(* state: each coin with both order types, the limit below, at and above   *)
(* the observed price and tp1 and sl below, at and above the limit, at a   *)
(* risk of 10%; and each coin with each of the proposals.                  *)

LevelPairs(l) == {<<110, 90>>, <<90, 110>>, <<l, 90>>, <<l, 110>>, <<110, l>>, <<90, l>>}

LevelArgs ==
    UNION { { [coinId |-> c, orderType |-> ot, currentPrice |-> 100, limitPrice |-> l,
               tp1 |-> lv[1], sl |-> lv[2], riskPercent |-> 1000] :
                 c \in Coins, ot \in {"BUY_LIMIT", "SELL_LIMIT"}, lv \in LevelPairs(l) } :
            l \in {95, 100, 105} }

ProposalArgs ==
    { [coinId |-> c, orderType |-> o.orderType, currentPrice |-> o.currentPrice,
       limitPrice |-> o.limitPrice, tp1 |-> o.tp1, sl |-> o.sl,
       riskPercent |-> o.riskPercent] : c \in Coins, o \in Proposals }

PlaceArgs == LevelArgs \cup ProposalArgs

Accepted(p, a) ==
    placeLimitOrderCheck(p, a.coinId, a.orderType, a.currentPrice, a.limitPrice,
                         a.tp1, a.sl, a.riskPercent) = "OK"

\* The conditions of the claim, the size being the fraction num / den of a
\* cent.
ClaimedConditions(p, a, num, den) ==
    /\ Len(p.pendingOrders) < 5
    /\ a.coinId \notin (CoinIds(p.pendingOrders) \cup CoinIds(p.positions))
    /\ \/ a.orderType = "BUY_LIMIT" /\ a.limitPrice < a.currentPrice
       \/ a.orderType = "SELL_LIMIT" /\ a.limitPrice > a.currentPrice
    /\ \/ a.orderType = "BUY_LIMIT" /\ a.sl < a.limitPrice /\ a.limitPrice < a.tp1
       \/ a.orderType = "SELL_LIMIT" /\ a.tp1 < a.limitPrice /\ a.limitPrice < a.sl
    /\ num >= Dollars(5) * den
    /\ num <= (p.balance - p.reservedBalance) * den

\* C6 as stated: placeLimitOrder succeeds iff the conditions hold with
\* size = balance * riskPercent / 100, not rounded.
C6_SucceedsIffExactSize ==
    \A a \in PlaceArgs :
        Accepted(portfolio, a)
            <=> ClaimedConditions(portfolio, a, portfolio.balance * a.riskPercent, 10000)

\* C6 as amended: placeLimitOrder succeeds iff the conditions hold with
\* size = balance * riskPercent / 100 rounded to the nearest cent.
C6_SucceedsIffRoundedSize ==
    \A a \in PlaceArgs :
        Accepted(portfolio, a)
            <=> ClaimedConditions(portfolio, a,
                                  toFixedMul(portfolio.balance, a.riskPercent, 10000), 1)

\* An order has been accepted whose size is not a whole number of cents
\* before rounding, and one has been turned down for its size.
C6_Witness ==
    /\ result.op = "placeLimitOrder"
    /\ result.success
    /\ (portfolio.balance * Last(pending).riskPercent) % 10000 # 0
    /\ \E a \in PlaceArgs :
          placeLimitOrderCheck(portfolio, a.coinId, a.orderType, a.currentPrice,
                               a.limitPrice, a.tp1, a.sl, a.riskPercent) = "SIZE_MIN"

----------------------------------------------------------------------------
\* What C7 says of a step in which placeLimitOrder succeeds, but for the size.
PlaceAppendsOneOrder ==
    /\ Len(pending') = Len(pending) + 1
    /\ SubSeq(pending', 1, Len(pending)) = pending
    /\ Last(pending').id = result'.orderId
    /\ Last(pending').status = "PENDING"
    /\ Last(pending').createdAt = now
    /\ Last(pending').expiresAt = Last(pending').createdAt + 72
    /\ portfolio'.reservedBalance = portfolio.reservedBalance + Last(pending').size
    /\ portfolio'.balance = portfolio.balance
    /\ portfolio'.positions = portfolio.positions
    /\ portfolio'.closedTrades = portfolio.closedTrades
    /\ portfolio'.cancelledOrders = portfolio.cancelledOrders

PlaceSucceeded == result'.op = "placeLimitOrder" /\ result'.success

Distance(a, b) == IF a >= b THEN a - b ELSE b - a

\* C7 as stated: a successful placeLimitOrder appends exactly one PENDING
\* order with expiresAt = createdAt + 72h and size = balance * riskPercent /
\* 100, raises reservedBalance by that size and leaves balance, positions,
\* closedTrades and cancelledOrders alone.
C7_PlaceAppendsExactSize ==
    [][PlaceSucceeded =>
          /\ PlaceAppendsOneOrder
          /\ Last(pending').size * 10000 = portfolio.balance * Last(pending').riskPercent]_vars

\* C7 as amended: the same, with size = balance * riskPercent / 100 rounded
\* to the nearest cent.
C7_PlaceAppendsRoundedSize ==
    [][PlaceSucceeded =>
          /\ PlaceAppendsOneOrder
          /\ 2 * Distance(Last(pending').size * 10000,
                          portfolio.balance * Last(pending').riskPercent) <= 10000]_vars

\* An order has been accepted after a trade has been closed, its size
\* rounded.
C7_Witness ==
    /\ result.op = "placeLimitOrder"
    /\ result.success
    /\ portfolio.closedTrades # <<>>
    /\ Last(pending).id = result.orderId
    /\ portfolio.reservedBalance = Last(pending).size
    /\ (portfolio.balance * Last(pending).riskPercent) % 10000 # 0

LevelsOrdered(type, entry, tp1, tp2, tp3) ==
    IF type = "LONG" THEN entry < tp1 /\ tp1 < tp2 /\ tp2 < tp3
                     ELSE entry > tp1 /\ tp1 > tp2 /\ tp2 > tp3

\* C8: every pending order and every position spawned from an order has
\* limitPrice < tp1 < tp2 < tp3 (LONG) or limitPrice > tp1 > tp2 > tp3 (SHORT).
C8_TakeProfitsOrdered ==
    /\ \A i \in 1..Len(pending) :
          LevelsOrdered(pending[i].positionType, pending[i].limitPrice,
                        pending[i].tp1, pending[i].tp2, pending[i].tp3)
    /\ \A i \in 1..Len(positions) :
          LevelsOrdered(positions[i].type, positions[i].entryPrice,
                        positions[i].tp1, positions[i].tp2, positions[i].tp3)

----------------------------------------------------------------------------
\* C9: cancelOrder on the id of an order in pendingOrders returns success,
\* sets its status to CANCELLED, removes it from pendingOrders, puts it at
\* the front of cancelledOrders, lowers reservedBalance by exactly its
\* size, and leaves balance, positions and the other pending orders alone.
C9_CancelPending ==
    [][(result'.op = "cancelOrder" /\ IsPending(result'.orderId)) =>
          \E i \in 1..Len(pending) :
              /\ pending[i].id = result'.orderId
              /\ result'.success
              /\ Len(pending') = Len(pending) - 1
              /\ \A j \in 1..Len(pending') :
                    pending'[j] = IF j < i THEN pending[j] ELSE pending[j + 1]
              /\ Len(portfolio'.cancelledOrders) = Len(portfolio.cancelledOrders) + 1
              /\ Head(portfolio'.cancelledOrders) = [pending[i] EXCEPT !.status = "CANCELLED"]
              /\ Tail(portfolio'.cancelledOrders) = portfolio.cancelledOrders
              /\ portfolio'.reservedBalance = portfolio.reservedBalance - pending[i].size
              /\ portfolio'.balance = portfolio.balance
              /\ portfolio'.positions = portfolio.positions]_vars

\* The first of two pending orders has been cancelled.
C9_Witness ==
    /\ result.op = "cancelOrder"
    /\ result.success
    /\ pending # <<>>
    /\ Head(portfolio.cancelledOrders).id = result.orderId
    /\ Head(portfolio.cancelledOrders).id < Head(pending).id

\* C10: cancelOrder with an id that matches no order in pendingOrders
\* returns success = false and leaves the whole portfolio as it was.
C10_CancelUnknown ==
    [][(result'.op = "cancelOrder" /\ ~IsPending(result'.orderId)) =>
          ~result'.success /\ portfolio' = portfolio]_vars

\* The id of an order that has expired has been cancelled, in vain, with
\* an order pending.
C10_Witness ==
    /\ result.op = "cancelOrder"
    /\ ~result.success
    /\ pending # <<>>
    /\ \E i \in 1..Len(portfolio.cancelledOrders) :
          /\ portfolio.cancelledOrders[i].id = result.orderId
          /\ portfolio.cancelledOrders[i].status = "EXPIRED"

----------------------------------------------------------------------------
(* What checkAndFillOrders must do with the portfolio p at time t and the  *)
(* price map m, q being the portfolio it leaves.                           *)

Quoted(m, coinId) == coinId \in DOMAIN m /\ m[coinId] # 0

Crossed(o, price) ==
    \/ o.orderType = "BUY_LIMIT" /\ price <= o.limitPrice
    \/ o.orderType = "SELL_LIMIT" /\ price >= o.limitPrice

\* The pending orders, by index, that are quoted and past their expiry.
Overdue(p, t, m) ==
    {i \in 1..Len(p.pendingOrders) :
        Quoted(m, p.pendingOrders[i].coinId) /\ t >= p.pendingOrders[i].expiresAt}

\* The pending orders that are quoted, not expired, and whose limit is
\* crossed by the quote.
Eligible(p, t, m) ==
    {i \in 1..Len(p.pendingOrders) :
        /\ Quoted(m, p.pendingOrders[i].coinId)
        /\ t < p.pendingOrders[i].expiresAt
        /\ Crossed(p.pendingOrders[i], m[p.pendingOrders[i].coinId])}

Rank(S, i) == Cardinality({j \in S : j <= i})

\* The eligible orders that find one of the 3 slots free, in placement order.
Served(p, t, m) ==
    LET E == Eligible(p, t, m)
    IN  {i \in E : Len(p.positions) + Rank(E, i) <= 3}

RECURSIVE SumSizes(_, _)
SumSizes(s, S) ==
    IF S = {} THEN 0
    ELSE LET i == CHOOSE j \in S : TRUE IN s[i].size + SumSizes(s, S \ {i})

IdsOf(s) == {s[i].id : i \in 1..Len(s)}

SpawnedFrom(s, id) == {j \in 1..Len(s) : s[j].fromOrderId = id}

SpawnedRight(o, pos) ==
    /\ pos.status = "OPEN"
    /\ pos.coinId = o.coinId
    /\ pos.entryPrice = o.limitPrice
    /\ pos.size = o.size
    /\ pos.quantity.num * o.limitPrice = o.size * pos.quantity.den
    /\ pos.type = IF o.orderType = "BUY_LIMIT" THEN "LONG" ELSE "SHORT"

FilledBy(p, q, t, m) ==
    LET S == Served(p, t, m)
    IN  /\ \A i \in S :
              LET o == p.pendingOrders[i]
              IN  /\ o.id \notin IdsOf(q.pendingOrders)
                  /\ SpawnedFrom(p.positions, o.id) = {}
                  /\ Cardinality(SpawnedFrom(q.positions, o.id)) = 1
                  /\ \A j \in SpawnedFrom(q.positions, o.id) :
                        SpawnedRight(o, q.positions[j])
        /\ Len(q.positions) = Len(p.positions) + Cardinality(S)
        /\ q.balance = p.balance - SumSizes(p.pendingOrders, S)
        /\ q.reservedBalance
              = p.reservedBalance - SumSizes(p.pendingOrders, S)
                                  - SumSizes(p.pendingOrders, Overdue(p, t, m))

\* C11: when checkAndFillOrders examines a non-expired pending order whose
\* fill condition holds while fewer than 3 positions are open, the order
\* leaves pendingOrders, exactly one OPEN position is added with entryPrice
\* = limitPrice, size = order.size, quantity = size / limitPrice, type LONG
\* for BUY_LIMIT and SHORT for SELL_LIMIT, and balance and reservedBalance
\* both go down by exactly order.size.
C11_FillSpawnsPosition ==
    \A m \in PriceMaps : FilledBy(portfolio, fillOrders(portfolio, m, now).p, now, m)

\* A BUY_LIMIT and a SELL_LIMIT order have been filled by one call, each at
\* an observed price that is not its limit.
C11_Witness ==
    /\ result.op = "checkAndFillOrders"
    /\ Len(result.filled) = 2
    /\ \E i, j \in 1..Len(positions) :
          /\ positions[i].type = "LONG" /\ positions[j].type = "SHORT"
          /\ positions[i].currentPrice # positions[i].entryPrice
          /\ positions[j].currentPrice # positions[j].entryPrice

BlockedWaits(p, q, t, m) ==
    LET E == Eligible(p, t, m)
        S == Served(p, t, m)
    IN  /\ \A i \in S :
              /\ p.pendingOrders[i].id \notin IdsOf(q.pendingOrders)
              /\ SpawnedFrom(q.positions, p.pendingOrders[i].id) # {}
        /\ \A i \in E \ S :
              /\ p.pendingOrders[i].status = "PENDING"
              /\ p.pendingOrders[i] \in Range(q.pendingOrders)
              /\ SpawnedFrom(q.positions, p.pendingOrders[i].id) = {}
              /\ p.pendingOrders[i].id \notin IdsOf(q.cancelledOrders)
        /\ \A i \in E, j \in S : i < j => i \in S
        /\ q.reservedBalance = SumSize(q.pendingOrders)

\* C12: a pending order whose limit is crossed while 3 positions are open
\* stays in pendingOrders, PENDING, with its reservation; a later call that
\* examines it with its limit still crossed, a slot free and now < expiresAt
\* fills it; the orders are served in placement order.
C12_BlockedOrderWaits ==
    \A m \in CapPriceMaps :
        BlockedWaits(portfolio, fillOrders(portfolio, m, now).p, now, m)

\* A call has filled the three earliest orders and left a later one, whose
\* limit is crossed as well, pending.
C12_Witness ==
    /\ result.op = "checkAndFillOrders"
    /\ Len(result.filled) = 3
    /\ \E i \in 1..Len(pending) :
          /\ pending[i].status = "PENDING"
          /\ \A m \in CapPriceMaps : Crossed(pending[i], m[pending[i].coinId])
          /\ \A k \in 1..Len(result.filled) : result.filled[k] < pending[i].id
          /\ portfolio.reservedBalance >= pending[i].size

----------------------------------------------------------------------------
WithId(s, id) == {j \in 1..Len(s) : s[j].id = id}

\* The order o of p has been moved to the cancelled orders of q as EXPIRED.
ExpiredIn(o, q) ==
    /\ o.id \notin IdsOf(q.pendingOrders)
    /\ SpawnedFrom(q.positions, o.id) = {}
    /\ Cardinality(WithId(q.cancelledOrders, o.id)) = 1
    /\ \A j \in WithId(q.cancelledOrders, o.id) :
          q.cancelledOrders[j] = [o EXCEPT !.status = "EXPIRED"]

PastExpiry(p, t) == {i \in 1..Len(p.pendingOrders) : t >= p.pendingOrders[i].expiresAt}

\* C13 as stated: an order created at T and not filled before T + 72h is
\* EXPIRED by the first checkAndFillOrders call at or after T + 72h, and its
\* size is released from reservedBalance exactly once.
C13_ExpiresAtFirstTick ==
    \A m \in PriceMaps :
        LET q == fillOrders(portfolio, m, now).p
        IN  /\ \A i \in PastExpiry(portfolio, now) : ExpiredIn(pending[i], q)
            /\ q.reservedBalance = SumSize(q.pendingOrders)

\* C13 as amended: it is EXPIRED by the first checkAndFillOrders call at or
\* after T + 72h whose price map has a price for its instrument, and not
\* before T + 72h; its size is released exactly once, a second call with
\* the same map releasing nothing more.
C13_ExpiresAtFirstQuotedTick ==
    \A m \in PriceMaps :
        LET q == fillOrders(portfolio, m, now).p
            q2 == fillOrders(q, m, now).p
        IN  /\ \A i \in Overdue(portfolio, now, m) :
                  /\ ExpiredIn(pending[i], q)
                  /\ ExpiredIn(pending[i], q2)
            /\ \A i \in 1..Len(pending) :
                  now < pending[i].expiresAt => WithId(q.cancelledOrders, pending[i].id) = {}
            /\ q.reservedBalance
                  = portfolio.reservedBalance
                      - SumSizes(pending, Overdue(portfolio, now, m))
                      - SumSizes(pending, Served(portfolio, now, m))
            /\ q2.reservedBalance
                  = q.reservedBalance - SumSizes(q.pendingOrders, Served(q, now, m))

\* An order has been expired by a call made exactly 72h after it was
\* placed.
C13_Witness ==
    /\ result.op = "checkAndFillOrders"
    /\ result.expired # <<>>
    /\ \E j \in 1..Len(portfolio.cancelledOrders) :
          /\ portfolio.cancelledOrders[j].status = "EXPIRED"
          /\ portfolio.cancelledOrders[j].id = result.expired[1]
          /\ portfolio.cancelledOrders[j].createdAt + 72 = now

----------------------------------------------------------------------------
(* What updatePositions must do with the portfolio p and the price map m,  *)
(* q being the portfolio it leaves.                                        *)

\* price has reached level: a stop is reached from above by a LONG and
\* from below by a SHORT, a take-profit the other way round.
Beyond(type, price, level, stop) ==
    IF (type = "LONG") = stop THEN price <= level ELSE price >= level

ClaimedReason(pos, price) ==
    CASE Beyond(pos.type, price, pos.sl, TRUE)   -> "SL"
      [] ~Beyond(pos.type, price, pos.sl, TRUE)
           /\ Beyond(pos.type, price, pos.tp3, FALSE) -> "TP3"
      [] ~Beyond(pos.type, price, pos.sl, TRUE)
           /\ ~Beyond(pos.type, price, pos.tp3, FALSE)
           /\ Beyond(pos.type, price, pos.tp2, FALSE) -> "TP2"
      [] ~Beyond(pos.type, price, pos.sl, TRUE)
           /\ ~Beyond(pos.type, price, pos.tp3, FALSE)
           /\ ~Beyond(pos.type, price, pos.tp2, FALSE)
           /\ Beyond(pos.type, price, pos.tp1, FALSE) -> "TP1"
      [] OTHER -> "none"

ClosedAs(pos, reason, p, q) ==
    /\ pos.id \notin IdsOf(q.positions)
    /\ WithId(p.closedTrades, pos.id) = {}
    /\ Cardinality(WithId(q.closedTrades, pos.id)) = 1
    /\ \A j \in WithId(q.closedTrades, pos.id) :
          /\ q.closedTrades[j].status = "CLOSED"
          /\ q.closedTrades[j].closeReason = reason

StaysOpen(pos, q) ==
    /\ WithId(q.closedTrades, pos.id) = {}
    /\ Cardinality(WithId(q.positions, pos.id)) = 1
    /\ \A j \in WithId(q.positions, pos.id) :
          /\ q.positions[j].status = "OPEN"
          /\ q.positions[j].closeReason = "none"

\* C14: updatePositions gives a position at most one close reason per call,
\* by the priority SL, TP3, TP2, TP1 (LONG: SL if price <= sl, else TP3 if
\* price >= tp3, else TP2 if price >= tp2, else TP1 if price >= tp1; SHORT
\* mirrored); a position whose price crosses none of them stays OPEN.
C14_ClosePriority ==
    \A m \in PriceMaps :
        LET q == markPositions(portfolio, m).p
        IN  \A i \in 1..Len(positions) :
                positions[i].coinId \in DOMAIN m =>
                    LET reason == ClaimedReason(positions[i], m[positions[i].coinId])
                    IN  IF reason = "none" THEN StaysOpen(positions[i], q)
                        ELSE ClosedAs(positions[i], reason, portfolio, q)

\* A LONG position has been closed as TP3 at a price that is beyond tp1 and
\* tp2 as well.
C14_Witness ==
    /\ result.op = "updatePositions"
    /\ result.closed # <<>>
    /\ \E j \in 1..Len(portfolio.closedTrades) :
          /\ portfolio.closedTrades[j].id = result.closed[1]
          /\ portfolio.closedTrades[j].type = "LONG"
          /\ portfolio.closedTrades[j].closeReason = "TP3"
          /\ portfolio.closedTrades[j].tp1 < portfolio.closedTrades[j].tp2
          /\ portfolio.closedTrades[j].currentPrice >= portfolio.closedTrades[j].tp1
          /\ portfolio.closedTrades[j].currentPrice >= portfolio.closedTrades[j].tp2

----------------------------------------------------------------------------
RECURSIVE SumCredits(_, _)
SumCredits(s, S) ==
    IF S = {} THEN 0
    ELSE LET i == CHOOSE j \in S : TRUE
         IN  s[i].size + s[i].pnl + SumCredits(s, S \ {i})

\* The entries of q.closedTrades for the positions that are open in p and
\* no longer in q.
ClosedNow(p, q) ==
    {j \in 1..Len(q.closedTrades) :
        /\ q.closedTrades[j].id \in IdsOf(p.positions)
        /\ q.closedTrades[j].id \notin IdsOf(q.positions)}

\* C15: a call of updatePositions that closes k positions raises balance by
\* the sum of their size + pnl and totalTrades by k; for one position,
\* balance goes up by exactly its size + pnl and totalTrades by exactly 1.
C15_CloseCreditsBalance ==
    \A m \in PriceMaps :
        LET q == markPositions(portfolio, m).p
            k == Len(positions) - Len(q.positions)
        IN  /\ Cardinality(ClosedNow(portfolio, q)) = k
            /\ Len(q.closedTrades) = Len(portfolio.closedTrades) + k
            /\ q.balance = portfolio.balance + SumCredits(q.closedTrades, ClosedNow(portfolio, q))
            /\ q.totalTrades = portfolio.totalTrades + k

\* The first trade has been closed at a loss, and the balance is the
\* initial one plus the loss, less what is still in open positions.
C15_Witness ==
    /\ result.op = "updatePositions"
    /\ Len(result.closed) = 1
    /\ portfolio.totalTrades = 1
    /\ portfolio.closedTrades[1].pnl < 0
    /\ portfolio.balance + SumSize(positions)
          = Dollars(1000) + portfolio.closedTrades[1].pnl

----------------------------------------------------------------------------
\* C16: updatePositions called twice in a row with the same price map gives
\* every still-open position the same pnl and pnlPercent, the second call
\* closes nothing the first closed: a position is closed, added to
\* closedTrades and credited to balance once; each call appends exactly one
\* pnlHistory sample.
C16_UpdateTwice ==
    \A m \in PriceMaps :
        LET first == markPositions(portfolio, m)
            second == markPositions(first.p, m)
        IN  /\ second.p.positions = first.p.positions
            /\ second.closed = <<>>
            /\ second.updated = first.updated
            /\ second.p.closedTrades = first.p.closedTrades
            /\ second.p.balance = first.p.balance
            /\ second.p.totalTrades = first.p.totalTrades
            /\ \A j \in 1..Len(first.p.closedTrades) :
                  /\ Cardinality(WithId(first.p.closedTrades, first.p.closedTrades[j].id)) = 1
                  /\ first.p.closedTrades[j].id \notin IdsOf(first.p.positions)
            /\ Len(first.p.pnlHistory) = Len(portfolio.pnlHistory) + 1
            /\ Len(second.p.pnlHistory) = Len(first.p.pnlHistory) + 1

\* A call has left a position open with a pnl that is not 0 and has
\* appended the second sample.
C16_Witness ==
    /\ result.op = "updatePositions"
    /\ result.updated # <<>>
    /\ \E i \in 1..Len(positions) :
          positions[i].pnl # 0 /\ positions[i].pnlPercent # 0
    /\ Len(portfolio.pnlHistory) = 2

----------------------------------------------------------------------------
\* C17: resetPortfolio, from any reachable state, leaves balance =
\* initialBalance = 1000, reservedBalance = 0, no position, no pending
\* order, empty closedTrades and cancelledOrders, zeroed statistics and a
\* pnlHistory of exactly one sample, of value 1000.
C17_ResetIsFresh ==
    [][result'.op = "resetPortfolio" =>
          /\ portfolio'.balance = Dollars(1000)
          /\ portfolio'.initialBalance = Dollars(1000)
          /\ portfolio'.reservedBalance = 0
          /\ portfolio'.positions = <<>>
          /\ portfolio'.pendingOrders = <<>>
          /\ portfolio'.closedTrades = <<>>
          /\ portfolio'.cancelledOrders = <<>>
          /\ portfolio'.totalPnl = 0
          /\ portfolio'.totalPnlPercent = 0
          /\ portfolio'.winRate = 0
          /\ portfolio'.totalTrades = 0
          /\ portfolio'.wins = 0
          /\ portfolio'.losses = 0
          /\ Len(portfolio'.pnlHistory) = 1
          /\ portfolio'.pnlHistory[1].value = Dollars(1000)]_vars

\* The portfolio has been reset after two orders had been accepted and a
\* third call made.
C17_Witness ==
    /\ result.op = "resetPortfolio"
    /\ nextOrderId >= 3
    /\ calls >= 4
    /\ portfolio.balance = Dollars(1000)
    /\ Len(portfolio.pnlHistory) = 1

----------------------------------------------------------------------------
\* C18: in updatePositions, an open position whose instrument has no entry
\* in the price map is skipped: its currentPrice, pnl and pnlPercent keep
\* their values and the call does not close it.
C18_UnquotedPositionSkipped ==
    \A m \in PriceMaps :
        LET q == markPositions(portfolio, m).p
        IN  \A i \in 1..Len(positions) :
                positions[i].coinId \notin DOMAIN m =>
                    /\ positions[i].id \in IdsOf(q.positions)
                    /\ WithId(q.closedTrades, positions[i].id) = {}
                    /\ \A j \in WithId(q.positions, positions[i].id) :
                          /\ q.positions[j].status = "OPEN"
                          /\ q.positions[j].currentPrice = positions[i].currentPrice
                          /\ q.positions[j].pnl = positions[i].pnl
                          /\ q.positions[j].pnlPercent = positions[i].pnlPercent

----------------------------------------------------------------------------
Unquoted(p, m) ==
    {i \in 1..Len(p.pendingOrders) : ~Quoted(m, p.pendingOrders[i].coinId)}

\* C19: checkAndFillOrders leaves every pending order whose instrument has
\* no price in the map untouched: still in pendingOrders, PENDING, in the
\* same relative order, its reservation still counted; with an empty price
\* map it changes nothing in the portfolio and returns no filled and no
\* expired order.
C19_UnquotedOrderUntouched ==
    \A m \in PriceMaps :
        LET st == fillOrders(portfolio, m, now)
            U == Unquoted(portfolio, m)
        IN  /\ \A i \in U :
                  /\ pending[i].status = "PENDING"
                  /\ \E a \in 1..Len(st.p.pendingOrders) : st.p.pendingOrders[a] = pending[i]
            /\ \A i, j \in U :
                  i < j => \E a, b \in 1..Len(st.p.pendingOrders) :
                              /\ a < b
                              /\ st.p.pendingOrders[a] = pending[i]
                              /\ st.p.pendingOrders[b] = pending[j]
            /\ st.p.reservedBalance = SumSize(st.p.pendingOrders)
            /\ st.p.reservedBalance >= SumSizes(pending, U)
            /\ DOMAIN m = {} =>
                  /\ st.p = portfolio
                  /\ st.filled = <<>>
                  /\ st.expired = <<>>

\* A call has expired one order and left another one, as old but without a
\* price in the map, pending.
C19_Witness ==
    /\ result.op = "checkAndFillOrders"
    /\ result.expired # <<>>
    /\ \E i \in 1..Len(pending) :
          /\ now >= pending[i].expiresAt
          /\ pending[i].status = "PENDING"
          /\ portfolio.reservedBalance >= pending[i].size

----------------------------------------------------------------------------
\* C20: every updatePositions call appends exactly one pnlHistory sample,
\* after the closes of the call, of value balance + reservedBalance + the
\* sum of size + pnl over the positions still open; pnlHistory never holds
\* more than 500 samples, and the oldest are the ones dropped.
C20_OneSamplePerUpdate ==
    [][result'.op = "updatePositions" =>
          LET h == portfolio.pnlHistory
              g == portfolio'.pnlHistory
              dropped == Len(h) + 1 - Len(g)
          IN  /\ Len(g) = IF Len(h) < 500 THEN Len(h) + 1 ELSE 500
              /\ Last(g).value
                    = portfolio'.balance + portfolio'.reservedBalance
                        + SumCredits(positions', 1..Len(positions'))
              /\ \A j \in 1..(Len(g) - 1) : g[j] = h[j + dropped]]_vars

\* pnlHistory is full, its two newest samples are the values of two calls
\* at different prices and its oldest is still an initial one: samples
\* have been dropped from the front.
C20_Witness ==
    /\ result.op = "updatePositions"
    /\ Len(portfolio.pnlHistory) = 500
    /\ portfolio.pnlHistory[500].value # portfolio.pnlHistory[499].value
    /\ portfolio.pnlHistory[499].value # Dollars(1000)
    /\ portfolio.pnlHistory[500].value # Dollars(1000)
    /\ portfolio.pnlHistory[1].value = Dollars(1000)

----------------------------------------------------------------------------
\* C21: closedTrades is most-recent-first and never holds more than 100
\* entries: the positions an updatePositions call closes are put in front,
\* the last closed first, the older entries keep their order behind them,
\* and what would make the length exceed 100 is dropped from the old end.
C21_ClosedTradesNewestFirst ==
    [][LET old == portfolio.closedTrades
           new == portfolio'.closedTrades
           k == Len(result'.closed)
       IN  IF result'.op = "updatePositions"
           THEN /\ Len(new) = IF Len(old) + k <= 100 THEN Len(old) + k ELSE 100
                /\ \A j \in 1..k : /\ new[j].id = result'.closed[k + 1 - j]
                                   /\ new[j].status = "CLOSED"
                /\ \A j \in 1..(Len(new) - k) : new[k + j] = old[j]
           ELSE new = old \/ result'.op = "resetPortfolio"]_vars

\* Two positions were closed by one call on a full history: the oldest
\* trade (of the order with id 1) is gone.
C21_Witness ==
    /\ result.op = "updatePositions"
    /\ Len(result.closed) = 2
    /\ Len(portfolio.closedTrades) = 100
    /\ portfolio.closedTrades[100].fromOrderId > 1
    /\ portfolio.closedTrades[1].id = result.closed[2]

----------------------------------------------------------------------------
\* C22: cancelledOrders is a bounded history: after any sequence of
\* cancellations and expiries it never holds more than 100 orders.
C22_CancelledOrdersCapped == Len(portfolio.cancelledOrders) <= 100

----------------------------------------------------------------------------
\* The orders of P that are no longer in Q
Left(P, Q) == {i \in 1..Len(P) : P[i].id \notin IdsOf(Q)}

\* C23: every order in pendingOrders is PENDING and every order in
\* cancelledOrders is CANCELLED or EXPIRED; an order that leaves
\* pendingOrders is either put in front of cancelledOrders with nothing but
\* its status changed, to CANCELLED or EXPIRED, or reported filled with a
\* position opened from it; every order that enters pendingOrders is a new
\* one, and the orders already in cancelledOrders stay as they are.
C23_OrderLifecycle ==
    [][LET P == portfolio.pendingOrders
           Q == portfolio'.pendingOrders
           X == portfolio.cancelledOrders
           Y == portfolio'.cancelledOrders
           added == Len(Y) - Len(X)
       IN  /\ \A i \in 1..Len(Q) : Q[i].status = "PENDING"
           /\ \A j \in 1..Len(Y) : Y[j].status \in {"CANCELLED", "EXPIRED"}
           /\ result'.op # "resetPortfolio" =>
                /\ added >= 0
                /\ \A j \in 1..Len(X) : Y[added + j] = X[j]
                /\ \A i \in Left(P, Q) :
                      \/ \E j \in 1..added : Y[j] = [P[i] EXCEPT !.status = Y[j].status]
                      \/ /\ P[i].id \in Range(result'.filled)
                         /\ \E j \in 1..Len(positions') : positions'[j].fromOrderId = P[i].id
                /\ added = Cardinality({i \in Left(P, Q) : P[i].id \notin Range(result'.filled)})
                /\ \A i \in 1..Len(Q) :
                      \/ Q[i] \in Range(P)
                      \/ /\ Q[i].id = nextOrderId
                         /\ nextOrderId' > nextOrderId
                         /\ \A o \in Range(P) \cup Range(X) : o.id < nextOrderId]_vars

\* A call has expired one order and left another pending.
C23_Witness ==
    /\ result.op = "checkAndFillOrders"
    /\ result.expired # <<>>
    /\ portfolio.cancelledOrders # <<>>
    /\ portfolio.cancelledOrders[1].status = "EXPIRED"
    /\ pending # <<>>

----------------------------------------------------------------------------
\* The workers of user u whose thread has not been stopped
LiveWorkers(u) ==
    {w \in 1..Len(workers) : workers[w].userId = u /\ workers[w].phase # "stopped"}

\* C24: startBot for a user with a registered task returns success = false,
\* creates no worker and changes no task state, and for a user without one
\* it registers a new worker; stopBot for a user with a task stops the
\* worker and removes the task, so that getBotStatus reports not running
\* and a following startBot succeeds; stopBot for a user without a task
\* returns success = false and changes nothing.  (Users has one user: a
\* call is a call for that user.)
C24_StartStopContract ==
    [][\A u \in Users :
          /\ result'.op = "startBot" /\ u \in DOMAIN bots =>
                ~result'.success /\ workers' = workers /\ bots' = bots
          /\ result'.op = "startBot" /\ u \notin DOMAIN bots =>
                /\ result'.success
                /\ Len(workers') = Len(workers) + 1
                /\ u \in DOMAIN bots' /\ bots'[u] = Len(workers')
          /\ result'.op = "stopBot" /\ u \in DOMAIN bots =>
                /\ result'.success
                /\ u \notin DOMAIN bots'
                /\ workers'[bots[u]].phase = "stopped"
                /\ ~botStatus(bots', workers', u).isRunning
                /\ startBotResult(bots', u).success
          /\ result'.op = "stopBot" /\ u \notin DOMAIN bots =>
                ~result'.success /\ workers' = workers /\ bots' = bots]_vars

\* A second startBot is refused while the worker started after a stop is
\* registered.
C24_Witness ==
    /\ result.op = "startBot"
    /\ ~result.success
    /\ Len(workers) = 2
    /\ workers[1].phase = "stopped"
    /\ "default" \in DOMAIN bots /\ bots["default"] = 2

\* C25: at any time at most one worker per user is alive, whatever the
\* order of startBot, stopBot and the workers' 'exit' and 'error' events.
C25_OneWorkerPerUser == \A u \in Users : Cardinality(LiveWorkers(u)) <= 1

----------------------------------------------------------------------------
\* C26: the ticks of one worker never overlap: at most one tick of a
\* worker is in flight at any time.
C26_TicksNeverOverlap == \A w \in 1..Len(workers) : Len(workers[w].ticks) <= 1

----------------------------------------------------------------------------
\* C28: a stopBot that succeeds leaves every worker with a tick in flight
\* running: the worker is not terminated in the middle of a tick.
C28_StopWaitsForTick ==
    [][result'.op = "stopBot" /\ result'.success =>
          \A w \in 1..Len(workers) :
              workers[w].phase = "running" /\ workers[w].ticks # <<>> =>
                  workers'[w].phase = "running"]_vars

----------------------------------------------------------------------------
\* Worker w has an "error" message on its way to the manager.
ErrorPosted(w) ==
    \E j \in 1..Len(workers[w].events) : workers[w].events[j].type = "error"

\* The manager has logged an error of worker w.
ErrorLogged(w) ==
    \E j \in 1..Len(workers[w].state.logs) : workers[w].state.logs[j] = "error"

\* C29: when runCycle throws in a tick, the tick posts an "error" message
\* and ends, the worker keeps running with its timer and the task stays
\* registered; the manager appends the error to the task's logs when the
\* message arrives; and as long as the worker is not stopped the next tick
\* starts (the worker having started n ticks, fewer than MaxTicks, it
\* starts a further one).
C29_FailedTickIsLogged ==
    /\ [][/\ \A k \in 1..Len(workers[1].ticks) :
                (tickThrows(1, k) =>
                    /\ workers'[1].phase = "running"
                    /\ workers'[1].started = workers[1].started
                    /\ Len(workers'[1].ticks) = Len(workers[1].ticks) - 1
                    /\ Last(workers'[1].events).type = "error"
                    /\ bots' = bots)
           /\ (onMessage(1) /\ Head(workers[1].events).type = "error" =>
                    /\ workers'[1].state.logs = Append(workers[1].state.logs, "error")
                    /\ workers'[1].state.isRunning = workers[1].state.isRunning
                    /\ bots' = bots)]_vars
    /\ ErrorPosted(1) ~> ErrorLogged(1)
    /\ \A n \in 1..(MaxTicks - 1) :
          (ErrorPosted(1) /\ workers[1].started = n /\ workers[1].phase = "running")
              ~> (workers[1].started > n \/ workers[1].phase # "running")

\* A tick has failed, the error is in the logs of the task, the task is
\* still registered and running, and a further tick has started since.
C29_Witness ==
    /\ ErrorLogged(1)
    /\ workers[1].phase = "running"
    /\ workers[1].state.isRunning
    /\ "default" \in DOMAIN bots
    /\ workers[1].started = 2
    /\ Len(workers[1].ticks) = 1

----------------------------------------------------------------------------
\* The response r is the one of a refresh whose engine calls filled or
\* expired an order, or updated or closed a position.
RefreshActed(r) ==
    /\ r.op = "refresh"
    /\ r.filled # <<>> \/ r.expired # <<>> \/ r.closed # <<>> \/ r.updated # <<>>

\* C27: a refresh is serialized against the scheduler's tick of the same
\* user: no refresh changes the portfolio between the first and the last
\* engine step of a tick in progress, that is, a tick that has run its
\* checkAndFillOrders never places an order right after a refresh that
\* acted since then.
C27_RefreshSerialized ==
    [][~ /\ cron.phase = "ai"
         /\ RefreshActed(result)
         /\ result'.op = "placeLimitOrder"
         /\ result'.success]_vars

----------------------------------------------------------------------------
\* The tick of worker 1 opened or closed a position in this step.
TickChangedPositions == positionCoins(1)' # positionCoins(1)

\* A tick of worker 1 starts in this step.
TickStarts == workers'[1].started > workers[1].started

\* C30: the scheduler and the on-demand operations share one portfolio per
\* user: when a tick opens or closes a position, the portfolio that
\* getPortfolio returns on the main thread has the same open positions, and
\* a tick starts on the balance and the positions the on-demand operations
\* have left (the worker counts in 1/10000 dollar, the engine in cents).
C30_SinglePortfolio ==
    [][/\ TickChangedPositions =>
              positionCoins(1)' = CoinIds(portfolio'.positions)
       /\ TickStarts =>
              /\ workers'[1].portfolios["default"].balance = portfolio.balance * 100
              /\ positionCoins(1)' = CoinIds(portfolio.positions)]_vars

----------------------------------------------------------------------------
\* The positions of worker 1's portfolio (none before its first tick).
WorkerPositions ==
    IF "default" \in DOMAIN workers[1].portfolios
    THEN workers[1].portfolios["default"].positions ELSE <<>>

\* C31: a scan step of a tick opens a position only for a coin that has no
\* position yet and only on a signal of confidence 7 or more: a signal of
\* confidence below 7 never opens one.
C31_ExposureNeedsConfidence ==
    [][\A k \in 1..Len(workers[1].ticks) : \A signal \in BotSignals :
          tickSignal(1, k, signal) /\ Len(WorkerPositions') > Len(WorkerPositions) =>
              /\ Last(WorkerPositions').coinId \notin CoinIds(WorkerPositions)
              /\ signal.confidence >= 7]_vars

----------------------------------------------------------------------------
\* C32: whenever no tick of worker 1 is in flight (before the first cycle
\* and after every cycle), its portfolio holds at most 3 open positions.
C32_ThreePositionsAfterTick ==
    workers[1].ticks = <<>> => Len(WorkerPositions) <= 3

----------------------------------------------------------------------------
\* This step is a reconciliation run: the cron request's or a refresh's.
Reconciles == (cron.phase = "prices" /\ cron' # cron) \/ calls' # calls

\* The trades the run of this step closed (closedTrades is newest first).
ClosedInRun == SubSeq(portfolio'.closedTrades, 1, Len(result'.closed))

\* The position of id, opened by this run's fill, is open after the run,
\* marked at its price and short of its stop-loss and take-profits.
OpenAndMarked(id) ==
    \E j \in 1..Len(portfolio'.positions) :
        LET pos == portfolio'.positions[j]
        IN  /\ pos.id = id
            /\ pos.pnl = pnlOf(pos, pos.currentPrice)
            /\ closeReasonOf(pos, pos.currentPrice) = "none"

\* The position of id, opened by this run's fill, was closed by the run at
\* a price that breaches its stop-loss or a take-profit.
ClosedSameRun(id) ==
    \E j \in 1..Len(ClosedInRun) :
        LET c == ClosedInRun[j]
        IN  /\ c.id = id
            /\ c.pnl = pnlOf(c, c.currentPrice)
            /\ c.closeReason = closeReasonOf(c, c.currentPrice)
            /\ c.closeReason # "none"

\* C33: in one reconciliation run, every position spawned by a fill of the
\* run has been marked by the run's updatePositions: it is either open,
\* with the pnl of its price and no level breached, or closed in the same
\* run at a price that breaches its stop-loss or a take-profit; and the
\* balance after the run is the balance before, less the sizes filled,
\* plus size + pnl of every trade the run closed.
C33_FillThenMarkInOneRun ==
    [][Reconciles =>
          /\ \A i \in 1..Len(result'.filled) :
                 OpenAndMarked(result'.filled[i]) \/ ClosedSameRun(result'.filled[i])
          /\ portfolio'.balance =
                 portfolio.balance
                   - SumSizes(portfolio.pendingOrders,
                              {j \in 1..Len(portfolio.pendingOrders) :
                                  portfolio.pendingOrders[j].id \in Range(result'.filled)})
                   + SumValue(ClosedInRun)]_vars

\* A cron request's run has just filled an order and closed its position
\* at the stop-loss.
C33_Witness ==
    /\ result.op = "cron"
    /\ result.filled # <<>>
    /\ \E j \in 1..Len(result.closed) : result.closed[j] = result.filled[1]
    /\ portfolio.closedTrades # <<>>
    /\ portfolio.closedTrades[1].closeReason = "SL"
    /\ portfolio.closedTrades[1].id = result.filled[1]

----------------------------------------------------------------------------
\* The pending orders that are quoted and have expired.
ExpiredQuoted(p, t, m) ==
    {i \in 1..Len(p.pendingOrders) :
        /\ Quoted(m, p.pendingOrders[i].coinId)
        /\ t >= p.pendingOrders[i].expiresAt}

\* Those of them whose limit the quote crosses.
ExpiredCrossed(p, t, m) ==
    {i \in ExpiredQuoted(p, t, m) :
        Crossed(p.pendingOrders[i], m[p.pendingOrders[i].coinId])}

\* C34: expiry takes precedence over fill.  For every price map, a pending
\* order that is quoted, has expired and whose limit the quote crosses is
\* expired by checkAndFillOrders, whatever the free capacity: it is
\* reported as expired and not as filled, it is in cancelledOrders with
\* status EXPIRED and no longer pending, no position is created from it,
\* the balance only pays the orders that fill (none of them expired), and
\* the reservations of the expired and the filled orders are released.
C34_ExpiryBeforeFill ==
    \A m \in PriceMaps :
        LET st == fillOrders(portfolio, m, now)
            X == ExpiredCrossed(portfolio, now, m)
            S == Served(portfolio, now, m)
        IN  /\ \A i \in X :
                  /\ pending[i].id \in Range(st.expired)
                  /\ pending[i].id \notin Range(st.filled)
                  /\ pending[i].id \notin IdsOf(st.p.pendingOrders)
                  /\ pending[i].id \notin IdsOf(st.p.positions)
                  /\ \E j \in 1..Len(st.p.cancelledOrders) :
                        st.p.cancelledOrders[j] = [pending[i] EXCEPT !.status = "EXPIRED"]
            /\ X \cap S = {}
            /\ st.p.balance = portfolio.balance - SumSizes(pending, S)
            /\ Len(st.p.positions) = Len(portfolio.positions) + Cardinality(S)
            /\ st.p.reservedBalance =
                   release(portfolio.reservedBalance,
                           SumSizes(pending, S \cup ExpiredQuoted(portfolio, now, m)))

\* An order has expired, a price map quotes it across its limit, a slot is
\* free, and checkAndFillOrders with that map expires it: the balance and
\* the positions stay as they are.
C34_Witness ==
    \E m \in PriceMaps :
        LET st == fillOrders(portfolio, m, now)
            X == ExpiredCrossed(portfolio, now, m)
        IN  /\ X # {}
            /\ hasCapacity(portfolio.positions)
            /\ \A i \in X : pending[i].id \in Range(st.expired)
            /\ st.filled = <<>>
            /\ st.p.balance = portfolio.balance
            /\ st.p.positions = portfolio.positions
            /\ st.p.reservedBalance < portfolio.reservedBalance

----------------------------------------------------------------------------
\* The trades this step closed: those of an updatePositions call.
ClosedByStep ==
    IF calls' # calls /\ result'.op = "updatePositions" THEN ClosedInRun ELSE <<>>

RECURSIVE SumPnl(_)
SumPnl(s) == IF s = <<>> THEN 0 ELSE Head(s).pnl + SumPnl(Tail(s))

\* The number of wins among the trades s: those with pnl > 0.
Wins(s) == Cardinality({j \in 1..Len(s) : s[j].pnl > 0})

\* The counters of p add up.
CountersAddUp(p) == p.wins + p.losses = p.totalTrades

\* C35 as stated: winRate is wins / totalTrades * 100 (winRate in tenths of
\* a percent).
C35_WinRateExact ==
    /\ CountersAddUp(portfolio)
    /\ portfolio.totalTrades > 0 =>
          portfolio.winRate * portfolio.totalTrades = portfolio.wins * 1000

\* C35: the trade statistics stay consistent.  wins + losses = totalTrades
\* in every state; a step that closes trades counts each one once, as a
\* win exactly when its pnl > 0 and as a loss otherwise, and adds its pnl
\* to totalPnl; a reset sets the statistics to zero; no other step changes
\* them; and whenever totalTrades > 0, winRate is wins / totalTrades * 100
\* rounded to the nearest tenth of a percent.
C35_StatisticsConsistent ==
    [][/\ CountersAddUp(portfolio)
       /\ CountersAddUp(portfolio')
       /\ portfolio'.totalTrades > 0 =>
             LET d == portfolio'.winRate * portfolio'.totalTrades - portfolio'.wins * 1000
             IN  2 * d <= portfolio'.totalTrades /\ -2 * d <= portfolio'.totalTrades
       /\ IF calls' # calls /\ result'.op = "resetPortfolio"
          THEN /\ portfolio'.totalTrades = 0 /\ portfolio'.wins = 0
               /\ portfolio'.losses = 0 /\ portfolio'.totalPnl = 0
               /\ portfolio'.winRate = 0
          ELSE /\ portfolio'.totalTrades = portfolio.totalTrades + Len(ClosedByStep)
               /\ portfolio'.wins = portfolio.wins + Wins(ClosedByStep)
               /\ portfolio'.losses =
                      portfolio.losses + Len(ClosedByStep) - Wins(ClosedByStep)
               /\ portfolio'.totalPnl = portfolio.totalPnl + SumPnl(ClosedByStep)
               /\ ClosedByStep = <<>> => portfolio'.winRate = portfolio.winRate]_vars

\* After 100 losing trades updatePositions has closed a winning one: 1 win
\* in 101 trades, a rate of 0.99 percent kept as 1.0.
C35_Witness ==
    /\ result.op = "updatePositions"
    /\ result.closed # <<>>
    /\ portfolio.totalTrades = 101
    /\ portfolio.wins = 1
    /\ portfolio.losses = 100
    /\ portfolio.winRate = 10
    /\ portfolio.closedTrades[1].pnl > 0

----------------------------------------------------------------------------
----------------------------------------------------------------------------
\* C37: every tick terminates, however its lookups are answered: a tick of
\* worker 1 in flight is eventually over.
C37_TickTerminates == (workers[1].ticks # <<>>) ~> (workers[1].ticks = <<>>)

----------------------------------------------------------------------------
\* C38: cash is conserved: in every reachable state the balance plus the
\* sizes of the open positions equals initialBalance + totalPnl.
C38_CashConserved ==
    portfolio.balance + SumSize(portfolio.positions) =
        portfolio.initialBalance + portfolio.totalPnl

\* updatePositions has just closed a position at a profit or a loss.
C38_Witness ==
    /\ result.op = "updatePositions"
    /\ result.closed # <<>>
    /\ portfolio.totalPnl # 0
    /\ portfolio.balance = portfolio.initialBalance + portfolio.totalPnl
    /\ portfolio.closedTrades # <<>>

----------------------------------------------------------------------------
\* No position has been opened since the portfolio was created or reset.
NeverOpened == portfolio.positions = <<>> /\ portfolio.totalTrades = 0

\* C39: reserving cash is not a gain: after an updatePositions call on a
\* portfolio in which no position has ever been opened, the sample just
\* appended to pnlHistory equals initialBalance and totalPnlPercent is 0.
C39_ReservationIsNoGain ==
    result.op = "updatePositions" /\ NeverOpened =>
        /\ Last(portfolio.pnlHistory).value = portfolio.initialBalance
        /\ portfolio.totalPnlPercent = 0

----------------------------------------------------------------------------
\* C40: reservations are always covered by cash: reservedBalance <= balance
\* in every reachable state.
C40_ReservationsCovered == portfolio.reservedBalance <= portfolio.balance

====
